---- MODULE Spec2Model ----
(***************************************************************************)
(* ACE engine core: the message bus with its security overlay, the        *)
(* Executive Function DAG scheduler and the Cognitive Control focus state  *)
(* machine, modelled from the TypeScript sources.                          *)
(*                                                                         *)
(* Strings whose contents the code inspects (packet content, payload      *)
(* keys) are sequences of one-character strings, so String.includes and    *)
(* String.toLowerCase are computed, not assumed.                           *)
(***************************************************************************)
EXTENDS Integers, Sequences, FiniteSets, TLC

VARIABLES
    seenPacketIds,   \* SecurityOverlay.seenPacketIds, in insertion order
    busHasLogs,      \* BusManager.storage?.logs is configured
    lastPublish,     \* the latest publishSouthbound / publishNorthbound call and its outcome
    acceptedAt,      \* history: per followed id, the value of acceptCount when it was last accepted
    acceptCount,     \* history: number of southbound packets accepted by the overlay so far
    nextUuid,        \* the next value crypto.randomUUID() returns (every value is new)
    layerLocks,      \* the layers whose layer_lock key is set in MemoryStorage
    focusState,      \* CognitiveControlLayer.state
    failureCount,    \* CognitiveControlLayer.failureCount
    ccSouth,         \* the handleSouthbound invocation of Cognitive Control that holds the lock
    lastCC,          \* the latest step of a Cognitive Control handler and the state before it
    failRun,         \* history: FAILUREs from Task Prosecution handled since the last
                     \* INSTRUCTION, RESULT from Task Prosecution or reset
    runSignals,      \* history: FRUSTRATION_SIGNALs published during that run
    activePlan,      \* MemoryStorage: the value under active_plan:<plan id>, parsed
    efJobs,          \* the running handler invocations of Executive Function, per slot
    everTerminal,    \* history: the stored plan has had every task completed or failed
    lastEF,          \* history: the latest INSTRUCTION Executive Function published,
                     \* and the tasks it has published an INSTRUCTION for
    now,             \* Date.now(), in milliseconds
    cooldownMap,     \* ReflectionTriggerEngine.cooldownMap: key -> cooldownUntil (0: no entry)
    firedAt,         \* history: per key, when a detector last returned a trigger (-1: never)
    lastCheck,       \* history: the latest detector call and what it returned
    checks,          \* history: number of detector calls so far
    alSouth,         \* the handleSouthbound invocation of Aspirational that holds the lock
    lastAL,          \* history: the latest step of Aspirational's handleSouthbound
    tpSouth,         \* the handleSouthbound invocation of Task Prosecution that holds the lock
    lastTP,          \* history: the latest step of Task Prosecution's handleSouthbound
    lastTrigger,     \* history: the reflection trigger Task Prosecution handled last
                     \* and the northbound packets handling it delivered
    gsJobs,          \* the running handleSouthbound invocations of Global Strategy, per slot
    gsLockUntil,     \* when the ttl of the layer_lock key of Global Strategy runs out
    lastGS,          \* history: the latest step of Global Strategy's handleSouthbound
                     \* and the state before it
    flight,          \* the publish calls that await their audit-log write, in call order
    emitted,         \* history: the publish calls that have emitted, in emit order
    calls,           \* history: number of publish calls made so far
    chains,          \* BusManager.sbMiddlewares / nbMiddlewares after the overlay
    lastChain,       \* history: the middlewares the latest publish ran, in order
    amSouth,         \* the handleSouthbound invocation of Agent Model that holds the lock
    lastAM,          \* history: the latest step of Agent Model's handleSouthbound
    sessionRows,     \* SQLiteStorage: the rows of the sessions table, per session id
    sessionCache,    \* SessionManagerImpl.sessionCache
    gsSession,       \* the sessionId of the directive Global Strategy is handling ("": none)
    archivedDone,    \* history: the sessions an archiveSession call has archived
    lastSM,          \* history: the latest operation on the sessions, who made it and
                     \* whether it changed a stored record
    twinState,       \* CognitiveControlLayer.state in the run that leaves out the packets of
                     \* the other sessions
    twinCount,       \* CognitiveControlLayer.failureCount in that run
    outcomeRun,      \* history: FAILUREs received from Task Prosecution since its last RESULT,
                     \* counted up to the threshold
    lastFocus,       \* history: the latest packet Cognitive Control handled, its sessionId and
                     \* whether each run published a FRUSTRATION_SIGNAL for it
    tickVersion,     \* which of the tick() bodies in the tree the constructed CognitiveScheduler
                     \* runs ("none": not constructed)
    intervalId,      \* CognitiveScheduler.intervalId (0: null)
    intervals,       \* the timers set with setInterval and not cleared
    timerCount,      \* setInterval calls so far
    lastSched,       \* history: the latest start(), stop() or tick(), whether the scheduler was
                     \* running before it, and the publishes a tick made
    lastPredict,     \* history: the latest checkPredictionError call, its states, the comparison
                     \* and what it returned
    actionHistory,   \* ReflectionTriggerEngine.actionHistory, per session
    quietLeft,       \* history: per session, the calls of checkLoopDetection still to come of the
                     \* `window` calls that follow its latest trigger
    loopCalls,       \* history: checkLoopDetection calls so far
    lastLoop,        \* history: the latest checkLoopDetection call, the window it judged and
                     \* what it returned
    knowledge,       \* ChromaStorage: the entries of the knowledge collection, in the order added
    lastNorth        \* history: the latest telemetry published to Aspirational and what its
                     \* handleNorthbound did

busVars == <<seenPacketIds, busHasLogs, lastPublish, acceptedAt, acceptCount, nextUuid>>

ccVars == <<layerLocks, focusState, failureCount, ccSouth, lastCC, failRun, runSignals>>

ccState == <<focusState, failureCount, ccSouth, lastCC, failRun, runSignals>>

efVars == <<activePlan, efJobs, everTerminal, lastEF>>

trVars == <<now, cooldownMap, firedAt, lastCheck, checks>>

\* the variables of the components modelled after the bus, Cognitive Control and
\* Executive Function
alVars == <<alSouth, lastAL>>

tpVars == <<tpSouth, lastTP, lastTrigger>>

gsVars == <<gsJobs, gsLockUntil, lastGS>>

orderVars == <<flight, emitted, calls>>

chainVars == <<chains, lastChain>>

\* Agent Model
amVars == <<amSouth, lastAM>>

\* the Session Manager and the sessions table
smVars == <<sessionRows, sessionCache, gsSession, archivedDone, lastSM>>

\* Cognitive Control under the packets of several sessions, run side by side
\* with the same layer under the packets of one session only
focusVars == <<twinState, twinCount, outcomeRun, lastFocus>>

\* the Cognitive Scheduler
schedVars == <<tickVersion, intervalId, intervals, timerCount, lastSched>>

\* the reflection trigger engine on states and actions
predVars == <<lastPredict, actionHistory, quietLeft, loopCalls, lastLoop>>

\* the long-term knowledge of the Aspirational layer
knowVars == <<knowledge, lastNorth>>

extVars == <<trVars, alVars, tpVars, gsVars, orderVars, chainVars, amVars, smVars,
             focusVars, schedVars, predVars, knowVars>>

\* what the reflection trigger engine leaves alone
trFrame == <<busVars, ccVars, efVars, alVars, tpVars, gsVars, orderVars, chainVars,
             amVars, smVars, focusVars, schedVars, predVars, knowVars>>

\* what Aspirational leaves alone, the bus and the layer locks apart
alFrame == <<ccState, efVars, trVars, tpVars, gsVars, orderVars, chainVars, amVars,
             smVars, focusVars, schedVars, predVars, knowVars>>

\* what Task Prosecution leaves alone, the bus and the layer locks apart
tpFrame == <<ccState, efVars, trVars, alVars, gsVars, orderVars, chainVars, amVars,
             smVars, focusVars, schedVars, predVars, knowVars>>

\* what Global Strategy leaves alone, the bus, the layer locks and the clock apart
gsFrame == <<ccState, efVars, cooldownMap, firedAt, lastCheck, checks, alVars, tpVars,
            orderVars, chainVars, amVars, smVars, focusVars, schedVars, predVars,
             knowVars>>

\* what a publish call leaves alone, the bus apart
orderFrame == <<ccVars, efVars, trVars, alVars, tpVars, gsVars, chainVars, amVars,
                smVars, focusVars, schedVars, predVars, knowVars>>

\* what the middleware chain leaves alone, the bus apart
chainFrame == <<ccVars, efVars, trVars, alVars, tpVars, gsVars, orderVars, amVars,
                smVars, focusVars, schedVars, predVars, knowVars>>

\* what Agent Model leaves alone, the bus and the layer locks apart
amFrame == <<ccState, efVars, trVars, alVars, tpVars, gsVars, orderVars, chainVars,
             smVars, focusVars, schedVars, predVars, knowVars>>

\* what the session operations leave alone, the clock apart
smFrame == <<busVars, ccVars, efVars, cooldownMap, firedAt, lastCheck, checks, alVars,
            tpVars, gsVars, orderVars, chainVars, amVars, focusVars, schedVars, predVars,
             knowVars>>

\* what Cognitive Control leaves alone when the sessions of its packets are
\* followed: the bus, the layer locks, its state and its running handler apart
focusFrame == <<lastCC, failRun, runSignals, efVars, trVars, alVars, tpVars, gsVars,
               orderVars, chainVars, amVars, smVars, schedVars, predVars, knowVars>>

\* what start() and stop() leave alone, the scheduler apart
schedFrame == <<ccState, efVars, trVars, alVars, tpVars, gsVars, orderVars, chainVars,
                amVars, smVars, focusVars, predVars, knowVars>>

\* what the detectors on states and actions leave alone, the cooldown map apart
predFrame == <<ccState, efVars, now, firedAt, lastCheck, checks, alVars, tpVars, gsVars,
               orderVars, chainVars, amVars, smVars, focusVars, schedVars, knowVars>>

\* what handleNorthbound of the Aspirational layer leaves alone
knowFrame == <<ccState, efVars, trVars, alVars, tpVars, gsVars, orderVars, chainVars,
               amVars, smVars, focusVars, schedVars, predVars>>

vars == <<seenPacketIds, busHasLogs, lastPublish, acceptedAt, acceptCount, nextUuid,
          layerLocks, focusState, failureCount, ccSouth, lastCC, failRun, runSignals,
          activePlan, efJobs, everTerminal, lastEF,
          now, cooldownMap, firedAt, lastCheck, checks,
          alSouth, lastAL, tpSouth, lastTP, lastTrigger, gsJobs, gsLockUntil, lastGS,
          flight, emitted, calls, chains, lastChain,
          amSouth, lastAM,
          sessionRows, sessionCache, gsSession, archivedDone, lastSM,
          twinState, twinCount, outcomeRun, lastFocus,
          tickVersion, intervalId, intervals, timerCount, lastSched,
          lastPredict, actionHistory, quietLeft, loopCalls, lastLoop,
          knowledge, lastNorth>>

-----------------------------------------------------------------------------
(* JavaScript values *)

Str(s) == [t |-> "string", v |-> s]
Num(n) == [t |-> "number", v |-> n]
Obj(f) == [t |-> "object", v |-> f]
Undefined == [t |-> "undefined", v |-> 0]
Null == [t |-> "null", v |-> 0]
\* a string in UUID format, told apart by n; z.string().uuid() accepts these only
Uuid(n) == [t |-> "uuid", v |-> n]

\* no packet
NoPacket == [id |-> Undefined]

\* String.prototype.includes
Includes(s, sub) ==
    \E i \in 0..(Len(s) - Len(sub)) : SubSeq(s, i + 1, i + Len(sub)) = sub

LowerChar(c) ==
    CASE c = "A" -> "a" [] c = "B" -> "b" [] c = "C" -> "c" [] c = "D" -> "d"
      [] c = "E" -> "e" [] c = "F" -> "f" [] c = "G" -> "g" [] c = "H" -> "h"
      [] c = "I" -> "i" [] c = "J" -> "j" [] c = "K" -> "k" [] c = "L" -> "l"
      [] c = "M" -> "m" [] c = "N" -> "n" [] c = "O" -> "o" [] c = "P" -> "p"
      [] c = "Q" -> "q" [] c = "R" -> "r" [] c = "S" -> "s" [] c = "T" -> "t"
      [] c = "U" -> "u" [] c = "V" -> "v" [] c = "W" -> "w" [] c = "X" -> "x"
      [] c = "Y" -> "y" [] c = "Z" -> "z" [] OTHER -> c

\* String.prototype.toLowerCase
ToLowerCase(s) == [i \in 1..Len(s) |-> LowerChar(s[i])]

\* !s || s.trim() === '' (the only whitespace character used here is the blank)
IsBlank(s) == \A i \in 1..Len(s) : s[i] = " "

-----------------------------------------------------------------------------
(* Enums of src/src/types/index.ts *)

AceLayerID == {"ASPIRATIONAL", "GLOBAL_STRATEGY", "AGENT_MODEL",
               "EXECUTIVE_FUNCTION", "COGNITIVE_CONTROL", "TASK_PROSECUTION"}

SouthboundType == {"IMPERATIVE", "STRATEGY", "PLAN", "INSTRUCTION", "CONTROL", "VETO"}

NorthboundType == {"OBSERVATION", "RESULT", "STATUS", "FAILURE", "CRITICAL_FAILURE",
                   "EPIPHANY", "FRUSTRATION_SIGNAL", "CAPABILITY_ERROR"}

-----------------------------------------------------------------------------
(* Packet validation: the zod schemas of the bus *)

ZString(x) == x.t = "string"
ZNumber(x) == x.t = "number"
ZUuid(x) == x.t = "uuid"
ZOptionalRecord(x) == x.t \in {"undefined", "object"}

\* the schema with timestamp: z.any() in place of z.number()
SouthboundSchema_AnyTimestamp(p) ==
    /\ ZUuid(p.id)
    /\ ZString(p.traceId)
    /\ p.sourceLayer \in AceLayerID
    /\ p.targetLayer \in AceLayerID
    /\ p.type \in SouthboundType
    /\ ZString(p.content)
    /\ ZOptionalRecord(p.parameters)

SouthboundSchema(p) ==
    /\ ZUuid(p.id)
    /\ ZNumber(p.timestamp)
    /\ ZString(p.traceId)
    /\ p.sourceLayer \in AceLayerID
    /\ p.targetLayer \in AceLayerID
    /\ p.type \in SouthboundType
    /\ ZString(p.content)
    /\ ZOptionalRecord(p.parameters)

\* data: z.any().optional() accepts every value
NorthboundSchema(p) ==
    /\ ZUuid(p.id)
    /\ ZNumber(p.timestamp)
    /\ ZString(p.traceId)
    /\ p.sourceLayer \in AceLayerID
    /\ p.targetLayer \in AceLayerID
    /\ p.type \in NorthboundType
    /\ ZString(p.summary)

-----------------------------------------------------------------------------
(* Security overlay *)

PROHIBITED_COMMANDS ==
    << <<"r","m"," ","-","r","f">>,
       <<"m","k","f","s">>,
       <<"d","d"," ","i","f","=","/","d","e","v","/","z","e","r","o">>,
       <<":","(",")","{",":","|",":","&","}",";",":">>,
       <<"w","g","e","t">>,
       <<"c","u","r","l">>,
       <<"c","h","m","o","d"," ","7","7","7">> >>

MAX_TRACKED_IDS == 1000

\* Math.floor(MAX_TRACKED_IDS * 0.1)
EvictCount == MAX_TRACKED_IDS \div 10

\* the deny-list compared with the whole content instead of searched in it
ContainsProhibited_WholeContent(content) ==
    \E i \in 1..Len(PROHIBITED_COMMANDS) : content = PROHIBITED_COMMANDS[i]

ContainsProhibited(content) ==
    \E i \in 1..Len(PROHIBITED_COMMANDS) : Includes(content, PROHIBITED_COMMANDS[i])

SeenHas(seen, id) == \E i \in 1..Len(seen) : seen[i] = id

\* the eviction with slice(0, n + 1)
EvictOldest_OneMore(seen, n) ==
    IF Len(seen) > MAX_TRACKED_IDS
    THEN SubSeq(seen, (IF n + 1 < Len(seen) THEN n + 1 ELSE Len(seen)) + 1, Len(seen))
    ELSE seen

\* the eviction taking the n latest insertions instead of the n earliest
EvictOldest_Newest(seen, n) ==
    IF Len(seen) > MAX_TRACKED_IDS
    THEN SubSeq(seen, 1, Len(seen) - (IF n < Len(seen) THEN n ELSE Len(seen)))
    ELSE seen

\* Array.from(seenPacketIds).slice(0, n) deleted from the set
EvictOldest(seen, n) ==
    IF Len(seen) > MAX_TRACKED_IDS
    THEN SubSeq(seen, (IF n < Len(seen) THEN n ELSE Len(seen)) + 1, Len(seen))
    ELSE seen

\* SecurityOverlay.monitorSouthbound on a validated packet: the error it throws
\* ("none" when it calls next) and the tracked ids afterwards
MonitorSouthbound(seen, p) ==
    IF ContainsProhibited(p.content.v)
    THEN [err |-> "SecurityError", why |-> "prohibited", seen |-> seen]
    ELSE IF SeenHas(seen, p.id.v)
    THEN [err |-> "SecurityError", why |-> "duplicate", seen |-> seen]
    ELSE [err |-> "none", why |-> "none",
          seen |-> EvictOldest(Append(seen, p.id.v), EvictCount)]

SENSITIVE_KEYS == { <<"a","p","i","k","e","y">>, <<"p","a","s","s","w","o","r","d">>,
                    <<"t","o","k","e","n">>, <<"s","e","c","r","e","t">> }

REDACTED == Str(<<"[","R","E","D","A","C","T","E","D","]">>)

\* the key test without toLowerCase
IsSensitiveKey_CaseSensitive(key) == \E k \in SENSITIVE_KEYS : Includes(key, k)

IsSensitiveKey(key) == \E k \in SENSITIVE_KEYS : Includes(ToLowerCase(key), k)

\* SecurityOverlay.redactObject on the key -> value map of an object
RECURSIVE RedactObject(_)
RedactObject(o) ==
    [key \in DOMAIN o |->
        IF IsSensitiveKey(key) THEN REDACTED
        ELSE IF o[key].t = "object" THEN Obj(RedactObject(o[key].v))
        ELSE o[key]]

\* SecurityOverlay.monitorNorthbound: the packet after in-place redaction
MonitorNorthbound(p) ==
    IF p.data.t = "object" THEN [p EXCEPT !.data = Obj(RedactObject(p.data.v))] ELSE p


-----------------------------------------------------------------------------
(* Cognitive Control: FocusState machine *)

FocusState == {"IDLE", "EXECUTING", "BLOCKED", "FRUSTRATED"}

FRUSTRATION_THRESHOLD == 3

NoJob == [pc |-> "idle", packet |-> NoPacket]

NoStep == [op |-> "none", ptype |-> "none", source |-> "none", processed |-> FALSE,
           preState |-> "IDLE", preCount |-> 0, blank |-> FALSE]

\* Executive Function: nothing stored under active_plan:*
NoPlan == [id |-> Undefined, tasks |-> <<>>]

\* concurrent handleNorthbound invocations followed (slot 0 is the invocation of
\* handleSouthbound that holds the layer lock)
MaxEfJobs == 1

EfSlots == 0..MaxEfJobs

IdleJob == [pc |-> "idle", kind |-> "none", taskId |-> "none", plan |-> <<>>, ready |-> <<>>]

NoInstruction == [op |-> "none", taskId |-> "none", depsCompleted |-> TRUE,
                  afterTerminal |-> FALSE, dispatched |-> {}, again |-> FALSE,
                  handled |-> {}]

\* ReflectionTriggerType values the detectors of the engine produce
DetectorTypes ==
    {"PREDICTION_ERROR", "LOOP_DETECTION", "STAGNATION", "COMPLETION", "ACCUMULATION",
     "FEEDBACK", "CURIOSITY", "RESOURCE_EXHAUSTION"}

\* sessionId arguments: "" stands for an absent (or empty) session id
SessionIds == {"", "s1"}

\* `${trigger.type}:${trigger.sessionId || 'global'}`
CooldownKey(type, sessionId) == <<type, IF sessionId = "" THEN "global" ELSE sessionId>>

CooldownKeys == {CooldownKey(t, sid) : t \in DetectorTypes, sid \in SessionIds}

NoCheck == [type |-> "none", key |-> <<"none", "none">>, met |-> FALSE, returned |-> FALSE,
            at |-> 0, prevAt |-> -1]

\* Aspirational: no handleSouthbound invocation in progress
NoALJob == [pc |-> "idle", packet |-> NoPacket, exit |-> "none", sent |-> FALSE]

NoALStep == [op |-> "none", packet |-> NoPacket, exit |-> "none", sent |-> FALSE]

\* Task Prosecution: no handleSouthbound invocation in progress; executed: the
\* tool's execute was invoked, failures: FAILUREs delivered to Cognitive Control,
\* triggers: the reflection triggers the detectors returned, not yet handled,
\* report: what the handler publishes to Cognitive Control at its end
NoTPJob == [pc |-> "idle", packet |-> NoPacket, executed |-> FALSE, failures |-> 0,
            exit |-> "none", triggers |-> <<>>, report |-> "none"]

\* Task Prosecution: no reflection trigger handled yet
NoTrigger == [type |-> "none", level |-> "none", packets |-> 0, to |-> {}]

\* concurrent invocations of Global Strategy's handleSouthbound followed
MaxGsJobs == 2

GsSlots == 1..MaxGsJobs

\* Global Strategy: no step of handleSouthbound yet
NoGSStep == [op |-> "none", packet |-> NoPacket, preJobs |-> <<>>, preLocks |-> {},
             preUntil |-> 0, at |-> 0]

\* Agent Model: no handleSouthbound invocation in progress; plans: PLANs delivered
\* to Executive Function, errors: CAPABILITY_ERRORs delivered to Global Strategy
NoAMJob == [pc |-> "idle", op |-> "none", packet |-> NoPacket,
            validation |-> [valid |-> FALSE, riskLevel |-> Undefined],
            plans |-> 0, errors |-> 0, exit |-> "none"]

\* the session ids the Session Manager is called with
SmSessions == {"s1", "s2"}

\* no row in the sessions table, no entry in the cache
NoRow == [exists |-> FALSE, status |-> "none", lastActivityAt |-> 0, activeGoals |-> <<>>,
          metadata |-> {}, reflectionCount |-> 0]

NoSMStep == [op |-> "none", sessionId |-> "", by |-> "none", changed |-> FALSE]

NoFocusStep == [op |-> "none", sessionId |-> "", type |-> "none", signal |-> FALSE,
                twinSignal |-> FALSE]

\* the scheduler: no start(), stop() or tick() yet
NoSchedStep == [op |-> "none", running |-> FALSE, heartbeats |-> <<>>]

\* the sessions whose actions are followed
LoopSessions == SessionIds

\* no checkPredictionError call on concrete states yet
NoPredict == [op |-> "none", expected |-> Undefined, actual |-> Undefined,
              totalDifference |-> 0, fieldCount |-> 0, cooled |-> FALSE,
              returned |-> FALSE, level |-> "none"]

\* no checkLoopDetection call on concrete actions yet
NoLoop == [op |-> "none", sessionId |-> "", history |-> <<>>, judged |-> FALSE,
           cooled |-> FALSE, returned |-> FALSE, level |-> "none", quietBefore |-> 0]

\* Aspirational: no telemetry handled yet
NoNorth == [op |-> "none", packet |-> NoPacket, delivered |-> FALSE, logged |-> FALSE,
            ready |-> FALSE, stored |-> 0]

\* no publish through the middleware chain yet
NoChainRun == [dir |-> "none", ran |-> <<>>, registered |-> <<>>, seenBefore |-> <<>>]

\* new ReflectionTriggerEngine(): empty cooldown map
InitTrigger ==
    /\ now = 0
    /\ cooldownMap = [k \in CooldownKeys |-> 0]
    /\ firedAt = [k \in CooldownKeys |-> -1]
    /\ lastCheck = NoCheck
    /\ checks = 0

\* the layers after construction: no lock held, Cognitive Control IDLE with no
\* failures, no plan stored and no handler running
InitLayers ==
    /\ layerLocks = {}
    /\ focusState = "IDLE"
    /\ failureCount = 0
    /\ ccSouth = NoJob
    /\ lastCC = NoStep
    /\ failRun = 0
    /\ runSignals = 0
    /\ activePlan = NoPlan
    /\ efJobs = [j \in EfSlots |-> IdleJob]
    /\ everTerminal = FALSE
    /\ lastEF = NoInstruction
    /\ InitTrigger
    /\ alSouth = NoALJob
    /\ lastAL = NoALStep
    /\ tpSouth = NoTPJob
    /\ lastTP = NoTPJob
    /\ lastTrigger = NoTrigger
    /\ gsJobs = [s \in GsSlots |-> NoJob]
    /\ gsLockUntil = 0
    /\ lastGS = NoGSStep
    /\ flight = <<>>
    /\ emitted = <<>>
    /\ calls = 0
    /\ chains = [dir \in {"S", "N"} |-> <<>>]
    /\ lastChain = NoChainRun
    /\ amSouth = NoAMJob
    /\ lastAM = NoAMJob
    /\ sessionRows = [s \in SmSessions |-> NoRow]
    /\ sessionCache = [s \in SmSessions |-> NoRow]
    /\ gsSession = ""
    /\ archivedDone = {}
    /\ lastSM = NoSMStep
    /\ twinState = "IDLE"
    /\ twinCount = 0
    /\ outcomeRun = 0
    /\ lastFocus = NoFocusStep
    /\ tickVersion = "none"
    /\ intervalId = 0
    /\ intervals = {}
    /\ timerCount = 0
    /\ lastSched = NoSchedStep
    /\ lastPredict = NoPredict
    /\ actionHistory = [s \in LoopSessions |-> <<>>]
    /\ quietLeft = [s \in LoopSessions |-> 0]
    /\ loopCalls = 0
    /\ lastLoop = NoLoop
    /\ knowledge = <<>>
    /\ lastNorth = NoNorth

-----------------------------------------------------------------------------
(* BusManager.publishSouthbound / publishNorthbound *)

\* the layers with a subscriber on each channel: BaseLayer.setupListeners
\* subscribes every layer to its own id in both directions
Subscribers == AceLayerID

\* ids whose acceptance history is followed
BusIds == {1, 2}
ProbeIds == {1, EvictCount, EvictCount + 1}
TrackedIds == BusIds \cup ProbeIds

NoPublish ==
    [dir |-> "none", packet |-> NoPacket, outcome |-> "none", why |-> "none",
     invoked |-> {}, logged |-> FALSE, out |-> NoPacket, gap |-> -1]

\* accepted southbound packets since the id of p was last accepted; -1 when it
\* never was (or is not followed)
GapOf(p) ==
    IF p.id.t = "uuid" /\ p.id.v \in TrackedIds /\ acceptedAt[p.id.v] > 0
    THEN acceptCount - acceptedAt[p.id.v]
    ELSE -1

\* publishSouthbound(p): 1. schema, 2. middleware chain (the overlay),
\* 3. audit log, failure caught, 4. emit to the subscribers of p.targetLayer
SouthboundOutcome(seen, p, logOk) ==
    IF ~SouthboundSchema(p)
    THEN [outcome |-> "ValidationError", why |-> "schema", seen |-> seen,
          logged |-> FALSE, invoked |-> {}]
    ELSE LET m == MonitorSouthbound(seen, p) IN
         IF m.err # "none"
         THEN [outcome |-> m.err, why |-> m.why, seen |-> m.seen,
               logged |-> FALSE, invoked |-> {}]
         ELSE [outcome |-> "delivered", why |-> "none", seen |-> m.seen,
               logged |-> busHasLogs /\ logOk,
               invoked |-> {p.targetLayer} \cap Subscribers]

publishSouthbound(p, logOk) ==
    \E r \in {SouthboundOutcome(seenPacketIds, p, logOk)} :
    /\ seenPacketIds' = r.seen
    /\ lastPublish' = [dir |-> "S", packet |-> p, outcome |-> r.outcome, why |-> r.why,
                       invoked |-> r.invoked, logged |-> r.logged, out |-> p,
                       gap |-> GapOf(p)]
    /\ acceptCount' = IF r.outcome = "delivered" THEN acceptCount + 1 ELSE acceptCount
    /\ acceptedAt' = IF r.outcome = "delivered" /\ p.id.v \in TrackedIds
                     THEN [acceptedAt EXCEPT ![p.id.v] = acceptCount + 1]
                     ELSE acceptedAt
    /\ UNCHANGED busHasLogs

NorthboundOutcome(p, logOk) ==
    IF ~NorthboundSchema(p)
    THEN [outcome |-> "ValidationError", why |-> "schema", out |-> p,
          logged |-> FALSE, invoked |-> {}]
    ELSE [outcome |-> "delivered", why |-> "none", out |-> MonitorNorthbound(p),
          logged |-> busHasLogs /\ logOk,
          invoked |-> {p.targetLayer} \cap Subscribers]

publishNorthbound(p, logOk) ==
    \E r \in {NorthboundOutcome(p, logOk)} :
    /\ lastPublish' = [dir |-> "N", packet |-> p, outcome |-> r.outcome, why |-> r.why,
                       invoked |-> r.invoked, logged |-> r.logged, out |-> r.out,
                       gap |-> -1]
    /\ UNCHANGED <<seenPacketIds, busHasLogs, acceptedAt, acceptCount>>

-----------------------------------------------------------------------------
(* Packets offered to the bus by its callers *)

MaxFaults == 1

CleanContent == <<"l","s"," ","-","l","a">>

\* a fragment inside a longer instruction
Embed(f) == <<"d","o"," ">> \o f \o <<" ","/">>

Contents ==
    {CleanContent, <<>>, <<" ">>, <<"R","M"," ","-","R","F">>}
        \cup {PROHIBITED_COMMANDS[i] : i \in 1..Len(PROHIBITED_COMMANDS)}
        \cup {Embed(PROHIBITED_COMMANDS[i]) : i \in 1..Len(PROHIBITED_COMMANDS)}

TraceId == Str(<<"t","r">>)

WellFormedSouthbound(ids, targets, contents, params) ==
    [id : {Uuid(i) : i \in ids}, timestamp : {Num(1)}, traceId : {TraceId},
     sourceLayer : {"EXECUTIVE_FUNCTION"}, targetLayer : targets,
     type : {"INSTRUCTION"}, content : {Str(c) : c \in contents},
     parameters : params]

SbFaults == {"id_not_uuid", "id_missing", "timestamp_string", "traceId_missing",
             "source_unknown", "target_unknown", "type_unknown", "content_number",
             "content_missing", "parameters_string"}

NbFaults == {"id_not_uuid", "id_missing", "timestamp_string", "traceId_missing",
             "source_unknown", "target_unknown", "type_unknown", "summary_number",
             "summary_missing"}

FaultSets(all) == {F \in SUBSET all : Cardinality(F) >= 1 /\ Cardinality(F) <= MaxFaults}

\* the packet p with the fields named in F malformed or missing
WithFaults(p, F) ==
    [f \in DOMAIN p |->
        CASE f = "id" /\ "id_missing" \in F -> Undefined
          [] f = "id" /\ "id_not_uuid" \in F -> Str(<<"4","2">>)
          [] f = "timestamp" /\ "timestamp_string" \in F -> Str(<<"n","o","w">>)
          [] f = "traceId" /\ "traceId_missing" \in F -> Undefined
          [] f = "sourceLayer" /\ "source_unknown" \in F -> "NOT_A_LAYER"
          [] f = "targetLayer" /\ "target_unknown" \in F -> "NOT_A_LAYER"
          [] f = "type" /\ "type_unknown" \in F -> "NOT_A_TYPE"
          [] f = "content" /\ "content_missing" \in F -> Undefined
          [] f = "content" /\ "content_number" \in F -> Num(7)
          [] f = "summary" /\ "summary_missing" \in F -> Undefined
          [] f = "summary" /\ "summary_number" \in F -> Num(7)
          [] f = "parameters" /\ "parameters_string" \in F -> Str(<<"x">>)
          [] OTHER -> p[f]]

SouthboundInputs ==
    WellFormedSouthbound(BusIds, {"COGNITIVE_CONTROL"}, Contents, {Undefined})
        \cup WellFormedSouthbound({1}, {"TASK_PROSECUTION"}, {CleanContent},
                                  {Undefined, Obj(<<>>)})
        \cup {WithFaults(p, F) :
                p \in WellFormedSouthbound({1}, {"COGNITIVE_CONTROL"},
                        {CleanContent, Embed(PROHIBITED_COMMANDS[1])}, {Undefined}),
                F \in FaultSets(SbFaults)}

\* payload keys: three that contain a sensitive word in some letter case, two that do not
K_apiKey == <<"a","p","i","K","e","y">>
K_PASSWORD == <<"P","A","S","S","W","O","R","D">>
K_authToken == <<"a","u","t","h","T","o","k","e","n">>
K_Secret == <<"S","e","c","r","e","t">>
K_publicInfo == <<"p","u","b","l","i","c","I","n","f","o">>
K_0 == <<"0">>

PlainValue == Str(<<"v","1">>)

\* objects one level above the values vals: a one-element array, and objects
\* {plain}, {sensitive}, {sensitive, plain} with the nested value under one key
ObjectsOver(vals) ==
    {Obj([k \in {K_0} |-> x]) : x \in vals}
        \cup {Obj([k \in {K_PASSWORD} |-> x]) : x \in vals}
        \cup {Obj([k \in {K_apiKey, K_publicInfo} |->
                    IF k = K_apiKey THEN PlainValue ELSE x]) : x \in vals}
        \cup {Obj([k \in {K_authToken, K_publicInfo} |->
                    IF k = K_authToken THEN x ELSE PlainValue]) : x \in vals}
        \cup {Obj([k \in {K_Secret, K_publicInfo} |->
                    IF k = K_Secret THEN PlainValue ELSE x]) : x \in vals}

Payloads0 == {PlainValue, Null}
Payloads1 == Payloads0 \cup ObjectsOver(Payloads0)
Payloads2 == Payloads0 \cup ObjectsOver(Payloads1)

WellFormedNorthbound(summaries, payloads) ==
    [id : {Uuid(1)}, timestamp : {Num(1)}, traceId : {TraceId},
     sourceLayer : {"TASK_PROSECUTION"}, targetLayer : {"COGNITIVE_CONTROL"},
     type : {"RESULT"}, summary : summaries, data : payloads]

SimplePayload == Obj([k \in {K_apiKey} |-> PlainValue])

NorthboundInputs ==
    WellFormedNorthbound({Str(<<"o","k">>)}, Payloads2 \cup {Undefined})
        \cup WellFormedNorthbound({Str(<<>>)}, {SimplePayload})
        \cup {WithFaults(p, F) :
                p \in WellFormedNorthbound({Str(<<"o","k">>)}, {SimplePayload}),
                F \in FaultSets(NbFaults)}

-----------------------------------------------------------------------------
(* The bus on its own: any caller publishes any packet *)

InitBus ==
    /\ seenPacketIds = <<>>
    /\ busHasLogs \in BOOLEAN
    /\ lastPublish = NoPublish
    /\ acceptedAt = [i \in TrackedIds |-> 0]
    /\ acceptCount = 0
    /\ nextUuid = 1
    /\ InitLayers

PublishSouthbound ==
    \E p \in SouthboundInputs, logOk \in BOOLEAN :
        /\ publishSouthbound(p, logOk)
        /\ UNCHANGED <<nextUuid, ccVars, efVars, extVars>>

PublishNorthbound ==
    \E p \in NorthboundInputs, logOk \in BOOLEAN :
        /\ publishNorthbound(p, logOk)
        /\ UNCHANGED <<nextUuid, ccVars, efVars, extVars>>

NextBus == PublishSouthbound \/ PublishNorthbound

SpecBus == InitBus /\ [][NextBus]_vars

-----------------------------------------------------------------------------
(* The tracked-id set under a long run of publishes: a caller publishes      *)
(* well-formed packets under new ids and publishes some earlier ids again    *)

MaxFreshIds == 1002

PublishFresh ==
    /\ nextUuid <= MaxFreshIds
    /\ \E p \in WellFormedSouthbound({nextUuid}, {"COGNITIVE_CONTROL"}, {CleanContent},
                                     {Undefined}) :
           publishSouthbound(p, TRUE)
    /\ nextUuid' = nextUuid + 1
    /\ UNCHANGED <<ccVars, efVars, extVars>>

Republish ==
    /\ \E p \in WellFormedSouthbound({i \in ProbeIds : i < nextUuid}, {"COGNITIVE_CONTROL"},
                                     {CleanContent, Embed(PROHIBITED_COMMANDS[1])},
                                     {Undefined}) :
           publishSouthbound(p, TRUE)
    /\ UNCHANGED <<nextUuid, ccVars, efVars, extVars>>

NextEvict == PublishFresh \/ Republish

SpecEvict == InitBus /\ [][NextEvict]_vars

-----------------------------------------------------------------------------
(* Cognitive Control: handlers *)

MaxUuids == 4
MaxFailures == 4

C_BLOCKED == <<"B","L","O","C","K","E","D">>
C_HEARTBEAT == <<"H","E","A","R","T","B","E","A","T","_","R","E","F","L","E","C","T","I","O","N">>

\* the directives Executive Function and others address to Cognitive Control
CCDirective(id, type, content) ==
    [id |-> Uuid(id), timestamp |-> Num(1), traceId |-> TraceId,
     sourceLayer |-> "EXECUTIVE_FUNCTION", targetLayer |-> "COGNITIVE_CONTROL",
     type |-> type, content |-> Str(content), parameters |-> Undefined]

CCDirectives(id) ==
    {CCDirective(id, "INSTRUCTION", CleanContent), CCDirective(id, "INSTRUCTION", <<" ">>),
     CCDirective(id, "CONTROL", C_BLOCKED), CCDirective(id, "CONTROL", C_HEARTBEAT)}

\* the telemetry packets delivered to Cognitive Control (they passed the bus)
CCTelemetry ==
    [id : {Uuid(1)}, timestamp : {Num(1)}, traceId : {TraceId},
     sourceLayer : {"TASK_PROSECUTION", "EXECUTIVE_FUNCTION"},
     targetLayer : {"COGNITIVE_CONTROL"}, type : {"RESULT", "FAILURE"},
     summary : {Str(<<"o","k">>), Str(<<" ">>)}, data : {Undefined}]

\* MemoryStorage.acquireLayerLock: whether the lock is granted (handlers end well
\* within the 60 s after which a held lock lapses)
AcquireLayerLock(locks, layer) == layer \notin locks

\* publishSouthbound of a new directive to Cognitive Control, whose handleSouthbound
\* starts by trying the layer lock: the packet is dropped when the lock is held
CCDeliverSouthbound ==
    /\ nextUuid <= MaxUuids
    /\ \E p \in CCDirectives(nextUuid) :
        /\ publishSouthbound(p, TRUE)
        /\ LET got == "COGNITIVE_CONTROL" \in lastPublish'.invoked
                          /\ AcquireLayerLock(layerLocks, "COGNITIVE_CONTROL") IN
           /\ layerLocks' = IF got THEN layerLocks \cup {"COGNITIVE_CONTROL"} ELSE layerLocks
           /\ ccSouth' = IF got THEN [pc |-> "body", packet |-> p] ELSE ccSouth
           /\ lastCC' = [op |-> "deliver", ptype |-> p.type, source |-> p.sourceLayer,
                         processed |-> got, preState |-> focusState,
                         preCount |-> failureCount, blank |-> FALSE]
        /\ failRun' = IF p.type = "INSTRUCTION" THEN 0 ELSE failRun
        /\ runSignals' = IF p.type = "INSTRUCTION" THEN 0 ELSE runSignals
    /\ nextUuid' = nextUuid + 1
    /\ UNCHANGED <<focusState, failureCount, efVars, extVars>>

\* the CONTROL packet handleSouthbound forwards: the INSTRUCTION with type, source
\* and target replaced, everything else (the id too) spread from the original
ForwardedControl(p) ==
    [p EXCEPT !.type = "CONTROL", !.sourceLayer = "COGNITIVE_CONTROL",
              !.targetLayer = "TASK_PROSECUTION"]

\* handleSouthbound after the lock: the body inside try
CCSouthBody ==
    /\ ccSouth.pc = "body"
    /\ LET p == ccSouth.packet
           blank == IsBlank(p.content.v)
           instruction == ~blank /\ p.targetLayer = "COGNITIVE_CONTROL"
                              /\ p.type = "INSTRUCTION"
           blocked == ~blank /\ ~instruction /\ p.type = "CONTROL"
                          /\ p.content.v = C_BLOCKED IN
       /\ lastCC' = [op |-> "southBody", ptype |-> p.type, source |-> p.sourceLayer,
                     processed |-> ~blank, preState |-> focusState,
                     preCount |-> failureCount, blank |-> FALSE]
       /\ IF instruction
          THEN /\ failureCount' = 0
               /\ focusState' = "EXECUTING"
               /\ publishSouthbound(ForwardedControl(p), TRUE)
               /\ failRun' = 0
               /\ runSignals' = 0
          ELSE /\ focusState' = IF blocked THEN "BLOCKED" ELSE focusState
               /\ UNCHANGED <<failureCount, busVars, failRun, runSignals>>
    /\ ccSouth' = [ccSouth EXCEPT !.pc = "release"]
    /\ UNCHANGED <<layerLocks, nextUuid, efVars, extVars>>

\* handleSouthbound: finally, releaseLayerLock
CCSouthRelease ==
    /\ ccSouth.pc = "release"
    /\ layerLocks' = layerLocks \ {"COGNITIVE_CONTROL"}
    /\ ccSouth' = NoJob
    /\ lastCC' = [op |-> "release", ptype |-> ccSouth.packet.type,
                  source |-> ccSouth.packet.sourceLayer, processed |-> TRUE,
                  preState |-> focusState, preCount |-> failureCount, blank |-> FALSE]
    /\ UNCHANGED <<busVars, focusState, failureCount, failRun, runSignals, efVars, extVars>>

\* a RESULT returns the layer to IDLE from these states only
ResultResets_ExecutingOnly(state) == state = "EXECUTING"

ResultResets_Always(state) == state \in FocusState

ResultResets(state) == state \in {"EXECUTING", "BLOCKED"}

FrustrationSignal(id, p, count) ==
    [id |-> Uuid(id), timestamp |-> Num(1), traceId |-> p.traceId,
     sourceLayer |-> "COGNITIVE_CONTROL", targetLayer |-> "GLOBAL_STRATEGY",
     type |-> "FRUSTRATION_SIGNAL",
     summary |-> Str(<<"F","r","u","s","t","r","a","t","i","o","n",":"," ">> \o p.summary.v),
     data |-> Obj([k \in {<<"f","a","i","l","u","r","e","C","o","u","n","t">>} |-> Num(count)])]

\* handleNorthbound(p): nothing on a blank summary; the telemetry and metrics
\* writes (not caught: a failing write ends the handler); then RESULT and FAILURE
CCHandleNorthbound ==
    /\ nextUuid <= MaxUuids
    /\ failureCount < MaxFailures
    /\ \E p \in CCTelemetry, telemetryOk \in BOOLEAN :
        LET processed == ~IsBlank(p.summary.v) /\ telemetryOk
            fromTP == p.sourceLayer = "TASK_PROSECUTION"
            result == processed /\ fromTP /\ p.type = "RESULT"
            failure == processed /\ fromTP /\ p.type = "FAILURE"
            count == IF failure THEN failureCount + 1 ELSE failureCount
            frustrated == failure /\ count >= FRUSTRATION_THRESHOLD IN
        /\ lastCC' = [op |-> "northbound", ptype |-> p.type, source |-> p.sourceLayer,
                      processed |-> processed, preState |-> focusState,
                      preCount |-> failureCount,
                      blank |-> IsBlank(p.summary.v)]
        /\ failureCount' = IF result /\ ResultResets(focusState) THEN 0 ELSE count
        /\ focusState' = IF result /\ ResultResets(focusState) THEN "IDLE"
                         ELSE IF frustrated THEN "FRUSTRATED" ELSE focusState
        /\ IF frustrated
           THEN /\ publishNorthbound(FrustrationSignal(nextUuid, p, count), TRUE)
                /\ nextUuid' = nextUuid + 1
           ELSE UNCHANGED busVars
        /\ failRun' = IF p.type = "RESULT" THEN 0
                      ELSE IF failure THEN failRun + 1 ELSE failRun
        /\ runSignals' = IF p.type = "RESULT" THEN 0
                         ELSE IF frustrated /\ lastPublish'.outcome = "delivered"
                              THEN runSignals + 1 ELSE runSignals
    /\ UNCHANGED <<layerLocks, ccSouth, efVars, extVars>>

\* resetState()
CCResetState ==
    /\ focusState' = "IDLE"
    /\ failureCount' = 0
    /\ lastCC' = [op |-> "resetState", ptype |-> "none", source |-> "none",
                  processed |-> TRUE, preState |-> focusState, preCount |-> failureCount,
                  blank |-> FALSE]
    /\ failRun' = 0
    /\ runSignals' = 0
    /\ UNCHANGED <<busVars, layerLocks, ccSouth, efVars, extVars>>

NextCC ==
    \/ CCDeliverSouthbound
    \/ CCSouthBody
    \/ CCSouthRelease
    \/ CCHandleNorthbound
    \/ CCResetState

\* the engine wires the bus to a storage that has a log store
InitCC ==
    /\ InitBus
    /\ busHasLogs

SpecCC == InitCC /\ [][NextCC]_vars

-----------------------------------------------------------------------------
(* Executive Function: the DAG scheduler *)

DAGTask(id, dependencies) ==
    [id |-> id, description |-> <<"r","u","n"," ",id>>, dependencies |-> dependencies,
     status |-> "none"]

\* task lists generateDAG can return (the language model's answer is only warned
\* about, never refused, when a dependency names no task)
Dags ==
    {<<DAGTask("t1", <<>>), DAGTask("t2", <<>>)>>,
     <<DAGTask("t1", <<>>), DAGTask("t2", <<"t1">>)>>,
     <<DAGTask("t1", <<>>), DAGTask("t2", <<"t0">>)>>,
     <<DAGTask("t1", <<>>), DAGTask("t2", <<>>), DAGTask("t3", <<"t1">>)>>}

\* tasks.map(t => ({...t, status: 'pending'}))
WithPending(tasks) == [i \in 1..Len(tasks) |-> [tasks[i] EXCEPT !.status = "pending"]]

\* plan.tasks.find(t => t.id === id): the index of the first match, 0 for undefined
Find(tasks, id) ==
    IF \E i \in 1..Len(tasks) : tasks[i].id = id
    THEN CHOOSE i \in 1..Len(tasks) :
             tasks[i].id = id /\ \A k \in 1..(i - 1) : tasks[k].id # id
    ELSE 0

\* task.dependencies.every(...): each dependency is found and completed
DependenciesCompleted(tasks, task) ==
    \A d \in 1..Len(task.dependencies) :
        LET i == Find(tasks, task.dependencies[d]) IN
        i # 0 /\ tasks[i].status = "completed"

\* readyTasks of executeNextTasks, as indices into plan.tasks, in plan order
ReadyTasks(tasks) ==
    SelectSeq([i \in 1..Len(tasks) |-> i],
              LAMBDA i : tasks[i].status = "pending" /\ DependenciesCompleted(tasks, tasks[i]))

\* plan.tasks.every(t => t.status === 'completed' || t.status === 'failed')
AllTerminal(tasks) == \A i \in 1..Len(tasks) : tasks[i].status \in {"completed", "failed"}

C_TASK_COMPLETE == <<"T","A","S","K","_","C","O","M","P","L","E","T","E">>

EFDirective(id, type, content, parameters) ==
    [id |-> Uuid(id), timestamp |-> Num(1), traceId |-> TraceId,
     sourceLayer |-> "AGENT_MODEL", targetLayer |-> "EXECUTIVE_FUNCTION",
     type |-> type, content |-> Str(content), parameters |-> parameters]

\* the tasks the layers below report on: those they were instructed to run
ReportedTasks == lastEF.dispatched

\* the directives addressed to Executive Function: the PLAN (one plan is
\* followed), blank or not, and TASK_COMPLETE controls for tasks of that plan
EFDirectives(id) ==
    IF activePlan = NoPlan
    THEN {EFDirective(id, "PLAN", c, Undefined) : c \in {CleanContent, <<" ">>}}
    ELSE {EFDirective(id, "CONTROL", C_TASK_COMPLETE,
                      Obj([taskId |-> t, planId |-> activePlan.id])) : t \in ReportedTasks}

\* the INSTRUCTION executeNextTasks publishes for a task
Instruction(id, planId, task) ==
    [id |-> Uuid(id), timestamp |-> Num(1), traceId |-> TraceId,
     sourceLayer |-> "EXECUTIVE_FUNCTION", targetLayer |-> "COGNITIVE_CONTROL",
     type |-> "INSTRUCTION",
     content |-> Str(<<"E","x","e","c","u","t","e"," ","t","a","s","k",":"," ">>
                     \o task.description),
     parameters |-> Obj([task |-> task, taskId |-> task.id, planId |-> planId])]

\* the FAILURE handleTaskFailure publishes
TaskFailed(id, planId, task) ==
    [id |-> Uuid(id), timestamp |-> Num(1), traceId |-> TraceId,
     sourceLayer |-> "EXECUTIVE_FUNCTION", targetLayer |-> "AGENT_MODEL",
     type |-> "FAILURE",
     summary |-> Str(<<"T","a","s","k"," ", task.id, " ","f","a","i","l","e","d">>),
     data |-> Obj([k \in {<<"t","a","s","k","I","d">>} |-> Str(<<task.id>>)])]

\* MemoryStorage.set of the plan; the history bit follows the stored value
Store(tasks) ==
    /\ activePlan' = [activePlan EXCEPT !.tasks = tasks]
    /\ everTerminal' = (everTerminal \/ AllTerminal(tasks))

\* the handler in slot j returns; handleSouthbound still has its finally to run
Return(j) == IF j = 0 THEN [IdleJob EXCEPT !.pc = "release"] ELSE IdleJob

\* publishSouthbound of a directive to Executive Function, whose handleSouthbound
\* starts by trying the layer lock: the packet is dropped when the lock is held
EFDeliverSouthbound ==
    /\ nextUuid <= MaxUuids
    /\ \E p \in EFDirectives(nextUuid) :
        /\ publishSouthbound(p, TRUE)
        /\ LET got == "EXECUTIVE_FUNCTION" \in lastPublish'.invoked
                          /\ AcquireLayerLock(layerLocks, "EXECUTIVE_FUNCTION") IN
           /\ layerLocks' = IF got THEN layerLocks \cup {"EXECUTIVE_FUNCTION"} ELSE layerLocks
           /\ efJobs' = IF ~got THEN efJobs
                        ELSE [efJobs EXCEPT ![0] =
                                 [IdleJob EXCEPT
                                     !.pc = "body",
                                     !.kind = IF IsBlank(p.content.v) THEN "BLANK"
                                              ELSE IF p.type = "PLAN" THEN "PLAN"
                                              ELSE "TASK_COMPLETE",
                                     !.taskId = IF p.type = "PLAN" THEN "none"
                                                ELSE p.parameters.v.taskId,
                                     !.plan = <<p.id>>]]
    /\ nextUuid' = nextUuid + 1
    /\ UNCHANGED <<ccState, activePlan, everTerminal, lastEF, extVars>>

\* handleSouthbound after the lock. Blank content: return. PLAN: generateDAG, the
\* plan stored with every task pending. TASK_COMPLETE: handleTaskCompletion, which
\* starts by reading the stored plan
EFSouthBody ==
    /\ efJobs[0].pc = "body"
    /\ LET job == efJobs[0] IN
       CASE job.kind = "BLANK" ->
               /\ efJobs' = [efJobs EXCEPT ![0] = Return(0)]
               /\ UNCHANGED <<activePlan, everTerminal>>
         [] job.kind = "PLAN" ->
               \E dag \in Dags :
                   /\ activePlan' = [id |-> job.plan[1], tasks |-> WithPending(dag)]
                   /\ everTerminal' = (everTerminal \/ AllTerminal(WithPending(dag)))
                   /\ efJobs' = [efJobs EXCEPT ![0] = [job EXCEPT !.pc = "next", !.plan = <<>>]]
         [] job.kind = "TASK_COMPLETE" ->
               /\ efJobs' = [efJobs EXCEPT ![0] =
                                [job EXCEPT !.pc = "update", !.plan = activePlan.tasks]]
               /\ UNCHANGED <<activePlan, everTerminal>>
    /\ UNCHANGED <<busVars, layerLocks, ccState, lastEF, extVars>>

\* handleSouthbound: finally, releaseLayerLock
EFSouthRelease ==
    /\ efJobs[0].pc = "release"
    /\ layerLocks' = layerLocks \ {"EXECUTIVE_FUNCTION"}
    /\ efJobs' = [efJobs EXCEPT ![0] = IdleJob]
    /\ UNCHANGED <<busVars, ccState, activePlan, everTerminal, lastEF, extVars>>

\* handleNorthbound of a RESULT or FAILURE from Cognitive Control naming a
\* dispatched task of the plan, past the telemetry write: handleTaskCompletion / handleTaskFailure
\* start by reading the stored plan; no lock is taken on this path
EFHandleNorthbound ==
    /\ \E j \in EfSlots \ {0}, type \in {"RESULT", "FAILURE"}, t \in ReportedTasks :
        /\ efJobs[j].pc = "idle"
        /\ \A k \in 1..(j - 1) : efJobs[k].pc # "idle"
        /\ efJobs' = [efJobs EXCEPT ![j] =
                         IF activePlan = NoPlan THEN IdleJob
                         ELSE [IdleJob EXCEPT !.pc = "update", !.kind = type, !.taskId = t,
                                              !.plan = activePlan.tasks]]
    /\ UNCHANGED <<busVars, layerLocks, ccState, activePlan, everTerminal, lastEF, extVars>>

\* handleTaskCompletion / handleTaskFailure after the read: the task found in the
\* parsed copy gets its new status and the whole copy is written back
EFUpdateTask ==
    /\ \E j \in EfSlots :
        /\ efJobs[j].pc = "update"
        /\ LET job == efJobs[j]
               i == Find(job.plan, job.taskId)
               status == IF job.kind = "FAILURE" THEN "failed" ELSE "completed"
               plan == [job.plan EXCEPT ![i].status = status] IN
           IF i = 0
           THEN /\ efJobs' = [efJobs EXCEPT ![j] = Return(j)]
                /\ UNCHANGED <<activePlan, everTerminal>>
           ELSE /\ Store(plan)
                /\ efJobs' = [efJobs EXCEPT ![j] =
                                 [job EXCEPT !.plan = plan,
                                             !.pc = IF job.kind = "FAILURE" THEN "notify"
                                                    ELSE "next"]]
           /\ lastEF' = [lastEF EXCEPT !.handled =
                            IF i # 0 /\ job.kind \in {"RESULT", "FAILURE"}
                            THEN @ \cup {job.taskId} ELSE @]
    /\ UNCHANGED <<busVars, layerLocks, ccState, extVars>>

\* handleTaskFailure: the FAILURE to Agent Model
EFNotifyFailure ==
    /\ nextUuid <= MaxUuids
    /\ \E j \in EfSlots :
        /\ efJobs[j].pc = "notify"
        /\ LET job == efJobs[j] IN
           publishNorthbound(TaskFailed(nextUuid, activePlan.id,
                                        job.plan[Find(job.plan, job.taskId)]), TRUE)
        /\ efJobs' = [efJobs EXCEPT ![j] = Return(j)]
    /\ nextUuid' = nextUuid + 1
    /\ UNCHANGED <<layerLocks, ccState, activePlan, everTerminal, lastEF, extVars>>

\* executeNextTasks: the stored plan is read and parsed, readyTasks filtered
EFExecuteNextTasks ==
    /\ \E j \in EfSlots :
        /\ efJobs[j].pc = "next"
        /\ LET ready == ReadyTasks(activePlan.tasks) IN
           efJobs' = [efJobs EXCEPT ![j] =
                         IF ready = <<>> THEN Return(j)
                         ELSE [efJobs[j] EXCEPT !.pc = "dispatch",
                                                !.plan = activePlan.tasks,
                                                !.ready = ready]]
    /\ UNCHANGED <<busVars, layerLocks, ccState, activePlan, everTerminal, lastEF, extVars>>

\* executeNextTasks, loop body, first half: the ready task is marked executing in
\* the parsed copy and the whole copy is written back
EFMarkExecuting ==
    /\ \E j \in EfSlots :
        /\ efJobs[j].pc = "dispatch"
        /\ LET job == efJobs[j]
               plan == [job.plan EXCEPT ![Head(job.ready)].status = "executing"] IN
           /\ Store(plan)
           /\ efJobs' = [efJobs EXCEPT ![j] = [job EXCEPT !.plan = plan, !.pc = "emit"]]
    /\ UNCHANGED <<busVars, layerLocks, ccState, lastEF, extVars>>

\* executeNextTasks, loop body, second half: publishSouthbound of the INSTRUCTION
\* (Cognitive Control's handler is its own action)
EFPublishInstruction ==
    /\ nextUuid <= MaxUuids
    /\ \E j \in EfSlots :
        /\ efJobs[j].pc = "emit"
        /\ LET job == efJobs[j]
               task == job.plan[Head(job.ready)] IN
           /\ publishSouthbound(Instruction(nextUuid, activePlan.id, task), TRUE)
           /\ lastEF' = [op |-> "instruction", taskId |-> task.id,
                         depsCompleted |-> DependenciesCompleted(activePlan.tasks, task),
                         afterTerminal |-> everTerminal,
                         dispatched |-> lastEF.dispatched \cup {task.id},
                         again |-> task.id \in lastEF.dispatched,
                         handled |-> lastEF.handled]
           /\ efJobs' = [efJobs EXCEPT ![j] =
                            IF Tail(job.ready) = <<>> THEN Return(j)
                            ELSE [job EXCEPT !.pc = "dispatch", !.ready = Tail(job.ready)]]
    /\ nextUuid' = nextUuid + 1
    /\ UNCHANGED <<layerLocks, ccState, activePlan, everTerminal, extVars>>

NextEF ==
    \/ EFDeliverSouthbound
    \/ EFSouthBody
    \/ EFSouthRelease
    \/ EFHandleNorthbound
    \/ EFUpdateTask
    \/ EFNotifyFailure
    \/ EFExecuteNextTasks
    \/ EFMarkExecuting
    \/ EFPublishInstruction

SpecEF == InitCC /\ [][NextEF]_vars

-----------------------------------------------------------------------------
(* Reflection trigger engine: detectors and their cooldown *)

cooldownMs == 30000

\* the clock advances in steps of TickMs up to MaxClock
TickMs == 10000
MaxClock == 40000
MaxChecks == 2

\* the cooldownUntil stored by a detector that fires at time t
NewCooldownUntil_Now(t) == t

NewCooldownUntil(t) == t + cooldownMs

\* checkCooldown(trigger) at time t: FALSE inside the window, else the window is
\* restarted and TRUE returned
CheckCooldown(map, key, t) ==
    IF t < map[key]
    THEN [ok |-> FALSE, map |-> map]
    ELSE [ok |-> TRUE, map |-> [map EXCEPT ![key] = NewCooldownUntil(t)]]

\* a detector call whose firing condition is met or not; withCooldown tells
\* whether the detector passes its trigger through checkCooldown
Detector(type, sessionId, met, withCooldown) ==
    /\ LET key == CooldownKey(type, sessionId)
           r == IF met /\ withCooldown THEN CheckCooldown(cooldownMap, key, now)
                ELSE [ok |-> met, map |-> cooldownMap] IN
       /\ cooldownMap' = r.map
       /\ firedAt' = IF r.ok THEN [firedAt EXCEPT ![key] = now] ELSE firedAt
       /\ lastCheck' = [type |-> type, key |-> key, met |-> met, returned |-> r.ok,
                        at |-> now, prevAt |-> firedAt[key]]
    /\ checks' = checks + 1
    /\ UNCHANGED <<now, trFrame>>

checkPredictionError ==
    /\ checks < MaxChecks
    /\ \E sid \in SessionIds, met \in BOOLEAN : Detector("PREDICTION_ERROR", sid, met, TRUE)

checkLoopDetection ==
    /\ checks < MaxChecks
    /\ \E sid \in SessionIds, met \in BOOLEAN : Detector("LOOP_DETECTION", sid, met, TRUE)

checkStagnation ==
    /\ checks < MaxChecks
    /\ \E sid \in SessionIds, met \in BOOLEAN : Detector("STAGNATION", sid, met, TRUE)

\* returns its trigger without checkCooldown
checkCompletion ==
    /\ checks < MaxChecks
    /\ \E sid \in SessionIds, met \in BOOLEAN : Detector("COMPLETION", sid, met, FALSE)

checkAccumulation ==
    /\ checks < MaxChecks
    /\ \E sid \in SessionIds, met \in BOOLEAN : Detector("ACCUMULATION", sid, met, TRUE)

\* returns its trigger without checkCooldown
checkFeedback ==
    /\ checks < MaxChecks
    /\ \E sid \in SessionIds, met \in BOOLEAN : Detector("FEEDBACK", sid, met, FALSE)

\* returns its trigger without checkCooldown
checkCuriosity ==
    /\ checks < MaxChecks
    /\ \E sid \in SessionIds, met \in BOOLEAN : Detector("CURIOSITY", sid, met, FALSE)

checkResourceExhaustion ==
    /\ checks < MaxChecks
    /\ \E sid \in SessionIds, met \in BOOLEAN : Detector("RESOURCE_EXHAUSTION", sid, met, TRUE)

\* time passes between detector calls
Tick ==
    /\ now + TickMs <= MaxClock
    /\ now' = now + TickMs
    /\ UNCHANGED <<cooldownMap, firedAt, lastCheck, checks, trFrame>>

NextTrigger ==
    \/ checkPredictionError
    \/ checkLoopDetection
    \/ checkStagnation
    \/ checkCompletion
    \/ checkAccumulation
    \/ checkFeedback
    \/ checkCuriosity
    \/ checkResourceExhaustion
    \/ Tick

SpecTrigger == InitCC /\ [][NextTrigger]_vars

-----------------------------------------------------------------------------
(* Aspirational layer: handleSouthbound *)

C_COMPLIANT == <<"C","O","M","P","L","I","A","N","T">>
C_VIOLATION == <<"V","I","O","L","A","T","I","O","N">>
C_VETOED == <<"S","t","r","a","t","e","g","y"," ","v","e","t","o","e","d">>

\* what this.llm.generate answers to the adjudication prompt
LlmResponses == {C_COMPLIANT, C_VIOLATION}

\* adjudicate: response.includes('COMPLIANT')
adjudicate(response) == Includes(response, C_COMPLIANT)

\* the directives published to Aspirational: a STRATEGY from Global Strategy and
\* the IMPERATIVE of AceEngine.publishWithSession, with or without content
ALDirective(id, source, type, content) ==
    [id |-> Uuid(id), timestamp |-> Num(1), traceId |-> TraceId,
     sourceLayer |-> source, targetLayer |-> "ASPIRATIONAL",
     type |-> type, content |-> Str(content), parameters |-> Undefined]

ALDirectives(id) ==
    {ALDirective(id, "GLOBAL_STRATEGY", "STRATEGY", CleanContent),
     ALDirective(id, "GLOBAL_STRATEGY", "STRATEGY", <<" ">>),
     ALDirective(id, "ASPIRATIONAL", "IMPERATIVE", CleanContent),
     ALDirective(id, "ASPIRATIONAL", "IMPERATIVE", <<" ">>)}

\* MemoryStorage.releaseLayerLock: the key is deleted
ReleaseLayerLock_Keep(locks, layer) == locks

ReleaseLayerLock(locks, layer) == locks \ {layer}

\* the VETO handleSouthbound publishes: the STRATEGY spread, the id with it
VetoPacket(p) ==
    [p EXCEPT !.type = "VETO", !.content = Str(C_VETOED),
              !.sourceLayer = "ASPIRATIONAL", !.targetLayer = p.sourceLayer]

\* the packet handleSouthbound forwards: the directive spread, the id with it
ForwardPacket(p) ==
    [p EXCEPT !.sourceLayer = "ASPIRATIONAL", !.targetLayer = "GLOBAL_STRATEGY"]

\* publishSouthbound of a new directive to Aspirational, whose handleSouthbound
\* starts by trying the layer lock: the packet is dropped when the lock is held
ALDeliverSouthbound ==
    /\ nextUuid <= MaxUuids
    /\ \E p \in ALDirectives(nextUuid) :
        /\ publishSouthbound(p, TRUE)
        /\ LET got == "ASPIRATIONAL" \in lastPublish'.invoked
                          /\ AcquireLayerLock(layerLocks, "ASPIRATIONAL") IN
           /\ layerLocks' = IF got THEN layerLocks \cup {"ASPIRATIONAL"} ELSE layerLocks
           /\ alSouth' = IF got THEN [NoALJob EXCEPT !.pc = "body", !.packet = p]
                         ELSE alSouth
           /\ lastAL' = [op |-> IF got THEN "acquired" ELSE "dropped", packet |-> p,
                         exit |-> "none", sent |-> FALSE]
    /\ nextUuid' = nextUuid + 1
    /\ UNCHANGED <<alFrame>>

\* handleSouthbound inside try, up to the answer of the adjudicator: empty content
\* returns, a STRATEGY awaits this.llm.generate, which answers or throws
ALAdjudicate ==
    /\ alSouth.pc = "body"
    /\ LET p == alSouth.packet IN
       \E response \in LlmResponses, llmOk \in BOOLEAN :
        \E to \in {IF IsBlank(p.content.v) THEN <<"release", "empty">>
                   ELSE IF p.type # "STRATEGY" THEN <<"process", "none">>
                   ELSE IF ~llmOk THEN <<"release", "llmFailed">>
                   ELSE IF ~adjudicate(response) THEN <<"veto", "none">>
                   ELSE <<"process", "none">>} :
            /\ alSouth' = [alSouth EXCEPT !.pc = to[1], !.exit = to[2]]
            /\ lastAL' = [op |-> "adjudicate", packet |-> p, exit |-> to[2], sent |-> FALSE]
    /\ UNCHANGED <<busVars, layerLocks, alFrame>>

\* the strategy is not ethical: publish the VETO and return; a publish the bus
\* refuses throws out of the handler
ALVeto ==
    /\ alSouth.pc = "veto"
    /\ publishSouthbound(VetoPacket(alSouth.packet), TRUE)
    /\ LET sent == lastPublish'.outcome = "delivered"
           exit == IF sent THEN "veto" ELSE "threw" IN
       /\ alSouth' = [alSouth EXCEPT !.pc = "release", !.exit = exit, !.sent = sent]
       /\ lastAL' = [op |-> "veto", packet |-> alSouth.packet, exit |-> exit, sent |-> sent]
    /\ UNCHANGED <<nextUuid, layerLocks, alFrame>>

\* the directive is for this layer: storage.logs.logDirective (a failure is not
\* caught), then publish the forward to Global Strategy
ALForward ==
    /\ alSouth.pc = "process"
    /\ \E logOk \in BOOLEAN :
        /\ IF alSouth.packet.targetLayer = "ASPIRATIONAL" /\ logOk
           THEN publishSouthbound(ForwardPacket(alSouth.packet), TRUE)
           ELSE UNCHANGED <<seenPacketIds, busHasLogs, lastPublish, acceptedAt, acceptCount>>
        /\ LET sent == alSouth.packet.targetLayer = "ASPIRATIONAL" /\ logOk
                           /\ lastPublish'.outcome = "delivered"
               exit == IF alSouth.packet.targetLayer # "ASPIRATIONAL" THEN "done"
                       ELSE IF sent THEN "done" ELSE "threw" IN
           /\ alSouth' = [alSouth EXCEPT !.pc = "release", !.exit = exit, !.sent = sent]
           /\ lastAL' = [op |-> "forward", packet |-> alSouth.packet, exit |-> exit,
                         sent |-> sent]
    /\ UNCHANGED <<nextUuid, layerLocks, alFrame>>

\* handleSouthbound: finally, releaseLayerLock
ALSouthRelease ==
    /\ alSouth.pc = "release"
    /\ layerLocks' = ReleaseLayerLock(layerLocks, "ASPIRATIONAL")
    /\ lastAL' = [op |-> "release", packet |-> alSouth.packet, exit |-> alSouth.exit,
                  sent |-> alSouth.sent]
    /\ alSouth' = NoALJob
    /\ UNCHANGED <<busVars, alFrame>>

NextAL ==
    \/ ALDeliverSouthbound
    \/ ALAdjudicate
    \/ ALVeto
    \/ ALForward
    \/ ALSouthRelease

SpecAL == InitCC /\ [][NextAL]_vars

-----------------------------------------------------------------------------
(* Task Prosecution: handleSouthbound and the sandbox check *)

K_tool == <<"t","o","o","l">>
K_args == <<"a","r","g","s">>
K_cmd == <<"c","m","d">>
K_error == <<"e","r","r","o","r">>

T_ls == Str(<<"l","s">>)
T_eval == Str(<<"e","v","a","l">>)
T_nope == Str(<<"n","o","p","e">>)

\* this.tools after registerTool: the registered names (a tool is registered
\* under a forbidden name too), each with schema z.object({ cmd: z.string() })
RegisteredTools == {T_ls, T_eval}

ToolSchema(args) ==
    /\ args.t = "object"
    /\ K_cmd \in DOMAIN args.v
    /\ args.v[K_cmd].t = "string"

BLACKLIST_None == {}

BLACKLIST == {Str(<<"e","v","a","l">>), Str(<<"e","x","e","c">>), Str(<<"s","y","s","t","e","m">>)}

SUSPICIOUS_PATTERNS ==
    {<<"r","m"," ","-","r","f">>,
     <<"s","u","d","o">>,
     <<"m","k","f","s">>,
     <<"d","d"," ","i","f","=","/","d","e","v","/","z","e","r","o">>,
     <<":","(",")","{",":","|",":","&","}",";",":">>,
     <<"c","h","m","o","d"," ","7","7","7">>,
     <<"f","o","r","m","a","t">>,
     <<"d","e","l"," ","/","f">>}

\* JSON.stringify of a string: quoted, with " and \ escaped
RECURSIVE JsonEscape(_)
JsonEscape(s) ==
    IF s = <<>> THEN <<>>
    ELSE (IF Head(s) \in {"\"", "\\"} THEN <<"\\", Head(s)>> ELSE <<Head(s)>>)
             \o JsonEscape(Tail(s))

JsonString(s) == <<"\"">> \o JsonEscape(s) \o <<"\"">>

Digit(n) == CASE n = 0 -> "0" [] n = 1 -> "1" [] n = 2 -> "2" [] n = 3 -> "3"
              [] n = 4 -> "4" [] n = 5 -> "5" [] n = 6 -> "6" [] n = 7 -> "7"
              [] n = 8 -> "8" [] n = 9 -> "9"

\* JSON.stringify of a string or of a number below ten
JsonValue(x) ==
    IF x.t = "string" THEN JsonString(x.v)
    ELSE IF x.t = "number" THEN <<Digit(x.v)>>
    ELSE <<"n","u","l","l">>

\* JSON.stringify of an object with at most one key
JsonStringify(o) ==
    IF DOMAIN o.v = {} THEN <<"{","}">>
    ELSE LET k == CHOOSE key \in DOMAIN o.v : TRUE IN
         <<"{">> \o JsonString(k) \o <<":">> \o JsonValue(o.v[k]) \o <<"}">>

\* argsStr.toLowerCase().includes(pattern.toLowerCase()) for some pattern
IsSuspicious(argsStr) ==
    \E pattern \in SUSPICIOUS_PATTERNS :
        Includes(ToLowerCase(argsStr), ToLowerCase(pattern))

\* sandboxCheck(toolName, args): registered, not blacklisted, schema, patterns
sandboxCheck(toolName, args) ==
    /\ toolName \in RegisteredTools
    /\ toolName \notin BLACKLIST
    /\ ToolSchema(args)
    /\ ~IsSuspicious(JsonStringify(args))

\* packet.parameters?.tool and packet.parameters?.args || {}
Get(o, key) ==
    IF o.t = "object" /\ key \in DOMAIN o.v THEN o.v[key] ELSE Undefined

ToolNameOf(p) == Get(p.parameters, K_tool)

ToolArgsOf(p) ==
    LET a == Get(p.parameters, K_args) IN
    IF a.t \in {"undefined", "null"} THEN Obj(<<>>) ELSE a

Cmd(v) == Obj([k \in {K_cmd} |-> v])

\* the args of the directives: none, a harmless command, a number where the
\* schema wants a string, "rm -rf /", and a pattern in capitals
ArgsInputs ==
    {Undefined,
     Cmd(Str(<<"l","s"," ","-","l","a">>)),
     Cmd(Num(1)),
     Cmd(Str(<<"r","m"," ","-","r","f"," ","/">>)),
     Cmd(Str(<<"S","U","D","O"," ","l","s">>))}

ToolInputs == {Undefined, T_ls, T_eval, T_nope}

Parameters(tool, args) ==
    Obj([k \in ({K_tool} \cup (IF args = Undefined THEN {} ELSE {K_args})) |->
            IF k = K_tool THEN tool ELSE args])

TPDirective(id, type, content, parameters) ==
    [id |-> Uuid(id), timestamp |-> Num(1), traceId |-> TraceId,
     sourceLayer |-> "COGNITIVE_CONTROL", targetLayer |-> "TASK_PROSECUTION",
     type |-> type, content |-> Str(content), parameters |-> parameters]

\* the directives delivered to Task Prosecution: CONTROL and INSTRUCTION for every
\* tool and args, one with blank content, one without parameters, one PLAN
TPDirectives(id) ==
    {TPDirective(id, type, CleanContent, Parameters(tool, args)) :
        type \in {"CONTROL", "INSTRUCTION"}, tool \in ToolInputs, args \in ArgsInputs}
    \cup {TPDirective(id, "CONTROL", <<" ">>, Parameters(T_nope, Undefined)),
          TPDirective(id, "CONTROL", CleanContent, Undefined),
          TPDirective(id, "PLAN", CleanContent, Parameters(T_ls, Undefined))}

C_NO_TOOL == <<"N","o"," ","t","o","o","l"," ","s","p","e","c","i","f","i","e","d">>
C_SANDBOX == <<"S","a","n","d","b","o","x"," ","v","i","o","l","a","t","i","o","n">>
C_EXEC_FAILED == <<"T","o","o","l"," ","e","x","e","c","u","t","i","o","n"," ","f","a","i","l","e","d">>
C_EXECUTED == <<"T","o","o","l"," ","e","x","e","c","u","t","e","d"," ","s","u","c","c","e","s","s","f","u","l","l","y">>
C_REFLECTION == <<"R","e","f","l","e","c","t","i","o","n"," ","t","r","i","g","g","e","r","e","d">>

\* the telemetry Task Prosecution publishes: reportFailure, the success report
\* and the report of a STRATEGIC reflection trigger
TPTelemetry(id, p, target, type, summary) ==
    [id |-> Uuid(id), timestamp |-> Num(1), traceId |-> p.traceId,
     sourceLayer |-> "TASK_PROSECUTION", targetLayer |-> target,
     type |-> type, summary |-> Str(summary),
     data |-> Obj([k \in {K_error} |-> Str(summary)])]

reportFailure(id, p, reason) ==
    publishNorthbound(TPTelemetry(id, p, "COGNITIVE_CONTROL", "FAILURE", reason), TRUE)

\* whether the latest publish delivered a FAILURE to Cognitive Control
FailureToCC(pub) ==
    /\ pub.outcome = "delivered"
    /\ pub.packet.type = "FAILURE"
    /\ pub.invoked = {"COGNITIVE_CONTROL"}

\* ids drawn before Task Prosecution receives no further directive
MaxTpUuids == 3

\* publishSouthbound of a new directive to Task Prosecution, whose handleSouthbound
\* starts by trying the layer lock: the packet is dropped when the lock is held
TPDeliverSouthbound ==
    /\ nextUuid <= MaxTpUuids
    /\ \E p \in TPDirectives(nextUuid) :
        /\ publishSouthbound(p, TRUE)
        /\ LET got == "TASK_PROSECUTION" \in lastPublish'.invoked
                          /\ AcquireLayerLock(layerLocks, "TASK_PROSECUTION") IN
           /\ layerLocks' = IF got THEN layerLocks \cup {"TASK_PROSECUTION"}
                            ELSE layerLocks
           /\ tpSouth' = IF got THEN [NoTPJob EXCEPT !.pc = "body", !.packet = p]
                         ELSE tpSouth
           /\ lastTP' = [NoTPJob EXCEPT !.pc = IF got THEN "acquired" ELSE "dropped",
                                        !.packet = p]
    /\ nextUuid' = nextUuid + 1
    /\ UNCHANGED <<lastTrigger, tpFrame>>

\* handleSouthbound inside try, up to the sandbox check: empty content returns,
\* a packet of another type falls through, a missing tool name and a refused
\* call are reported by reportFailure before returning
TPSandbox ==
    /\ tpSouth.pc = "body"
    /\ LET p == tpSouth.packet
           toolName == ToolNameOf(p)
           toolArgs == ToolArgsOf(p)
           blank == IsBlank(p.content.v)
           mine == ~blank /\ p.targetLayer = "TASK_PROSECUTION"
                       /\ p.type \in {"CONTROL", "INSTRUCTION"}
           noTool == mine /\ toolName.t = "undefined"
           refused == mine /\ ~noTool /\ ~sandboxCheck(toolName, toolArgs) IN
       /\ IF noTool \/ refused
          THEN /\ reportFailure(nextUuid, p, IF noTool THEN C_NO_TOOL ELSE C_SANDBOX)
               /\ nextUuid' = nextUuid + 1
          ELSE UNCHANGED busVars
       /\ \E job \in {[tpSouth EXCEPT
                         !.pc = IF mine /\ ~noTool /\ ~refused THEN "execute" ELSE "release",
                         !.exit = IF blank THEN "empty"
                                  ELSE IF ~mine THEN "done"
                                  ELSE IF noTool \/ refused THEN "rejected"
                                  ELSE "none",
                         !.failures = IF (noTool \/ refused) /\ FailureToCC(lastPublish')
                                      THEN 1 ELSE 0]} :
            /\ tpSouth' = job
            /\ lastTP' = [job EXCEPT !.pc = "sandbox"]
    /\ UNCHANGED <<layerLocks, lastTrigger, tpFrame>>

\* ReflectionLevel
ReflectionLevel == {"LOCAL", "STRATEGIC", "ASPIRATIONAL"}

\* compareStates(...).difference, in tenths
Differences == 0..10

\* config.predictionErrorThreshold ?? 0.3, in tenths
predictionErrorThreshold == 3

\* determineReflectionLevel, the difference in tenths
determineReflectionLevel(difference) ==
    IF difference < 5 THEN "LOCAL"
    ELSE IF difference < 8 THEN "STRATEGIC"
    ELSE "ASPIRATIONAL"

Trigger(type, level) == [type |-> type, level |-> level]

\* checkPredictionError: a difference above the threshold gives a trigger when
\* its cooldown allows; checkCompletion: a completion that is not valid gives a
\* LOCAL trigger
PredictionTriggers(difference, cooled) ==
    IF difference > predictionErrorThreshold /\ cooled
    THEN <<Trigger("PREDICTION_ERROR", determineReflectionLevel(difference))>>
    ELSE <<>>

CompletionTriggers(isValid) ==
    IF ~isValid THEN <<Trigger("COMPLETION", "LOCAL")>> ELSE <<>>

\* handleReflectionTrigger with every escalation sent to Global Strategy
TriggerTarget_Strategic(level) ==
    IF level = "LOCAL" THEN "none" ELSE "GLOBAL_STRATEGY"

\* handleReflectionTrigger: the layer the switch on trigger.level reports to
TriggerTarget(level) ==
    CASE level = "LOCAL" -> "none"
      [] level = "STRATEGIC" -> "GLOBAL_STRATEGY"
      [] level = "ASPIRATIONAL" -> "ASPIRATIONAL"
      [] OTHER -> "none"

\* after the sandbox check: checkLoopDetection, whose trigger ends the handler
\* once it is handled; otherwise executeTool, whose execute returns (the
\* detectors for prediction error and completion are asked, the RESULT follows)
\* or throws (caught: checkFeedback returns its trigger, reportFailure follows)
TPExecute ==
    /\ tpSouth.pc = "execute"
    /\ \E loop \in BOOLEAN, executeOk \in BOOLEAN, difference \in Differences,
          cooled \in BOOLEAN, isValid \in BOOLEAN :
        \E triggers \in {IF loop THEN <<Trigger("LOOP_DETECTION", "STRATEGIC")>>
                         ELSE IF executeOk
                         THEN PredictionTriggers(difference, cooled)
                                  \o CompletionTriggers(isValid)
                         ELSE <<Trigger("FEEDBACK", "STRATEGIC")>>} :
        \E job \in {[tpSouth EXCEPT
                       !.pc = IF triggers # <<>> THEN "trigger" ELSE "report",
                       !.executed = ~loop,
                       !.exit = IF loop THEN "loop"
                                ELSE IF executeOk THEN "done" ELSE "failed",
                       !.triggers = triggers,
                       !.report = IF loop THEN "none"
                                  ELSE IF executeOk THEN "RESULT" ELSE "FAILURE"]} :
            /\ tpSouth' = job
            /\ lastTP' = [job EXCEPT !.pc = "execute"]
    /\ UNCHANGED <<busVars, layerLocks, lastTrigger, tpFrame>>

\* handleReflectionTrigger for the next trigger the detectors returned: LOCAL
\* publishes nothing, STRATEGIC a FAILURE to Global Strategy, ASPIRATIONAL a
\* CRITICAL_FAILURE to Aspirational
TPHandleReflectionTrigger ==
    /\ tpSouth.pc = "trigger"
    /\ LET p == tpSouth.packet
           trigger == Head(tpSouth.triggers)
           rest == Tail(tpSouth.triggers)
           target == TriggerTarget(trigger.level) IN
       /\ IF target # "none"
          THEN /\ publishNorthbound(
                      TPTelemetry(nextUuid, p, target,
                                  IF trigger.level = "STRATEGIC" THEN "FAILURE"
                                  ELSE "CRITICAL_FAILURE",
                                  C_REFLECTION), TRUE)
               /\ nextUuid' = nextUuid + 1
          ELSE UNCHANGED busVars
       /\ lastTrigger' =
              [type |-> trigger.type, level |-> trigger.level,
               packets |-> IF target # "none" /\ lastPublish'.outcome = "delivered"
                           THEN 1 ELSE 0,
               to |-> IF target # "none" THEN lastPublish'.invoked ELSE {}]
       /\ \E job \in {[tpSouth EXCEPT
                         !.pc = IF rest # <<>> THEN "trigger"
                                ELSE IF tpSouth.report = "none" THEN "release"
                                ELSE "report",
                         !.triggers = rest]} :
            /\ tpSouth' = job
            /\ lastTP' = [job EXCEPT !.pc = "trigger"]
    /\ UNCHANGED <<layerLocks, tpFrame>>

\* the end of the try block: the RESULT of a tool that returned, reportFailure
\* for one that threw
TPReport ==
    /\ tpSouth.pc = "report"
    /\ LET p == tpSouth.packet IN
       /\ publishNorthbound(
              IF tpSouth.report = "RESULT"
              THEN TPTelemetry(nextUuid, p, "COGNITIVE_CONTROL", "RESULT", C_EXECUTED)
              ELSE TPTelemetry(nextUuid, p, "COGNITIVE_CONTROL", "FAILURE", C_EXEC_FAILED),
              TRUE)
       /\ \E job \in {[tpSouth EXCEPT
                         !.pc = "release",
                         !.failures = IF FailureToCC(lastPublish') THEN 1 ELSE 0]} :
            /\ tpSouth' = job
            /\ lastTP' = [job EXCEPT !.pc = "report"]
    /\ nextUuid' = nextUuid + 1
    /\ UNCHANGED <<layerLocks, lastTrigger, tpFrame>>

\* handleSouthbound: finally, releaseLayerLock
TPSouthRelease ==
    /\ tpSouth.pc = "release"
    /\ layerLocks' = ReleaseLayerLock(layerLocks, "TASK_PROSECUTION")
    /\ lastTP' = [tpSouth EXCEPT !.pc = "released"]
    /\ tpSouth' = NoTPJob
    /\ UNCHANGED <<busVars, lastTrigger, tpFrame>>

NextTP ==
    \/ TPDeliverSouthbound
    \/ TPSandbox
    \/ TPExecute
    \/ TPHandleReflectionTrigger
    \/ TPReport
    \/ TPSouthRelease

SpecTP == InitCC /\ [][NextTP]_vars

-----------------------------------------------------------------------------
(* Global Strategy: handleSouthbound under a lock that lapses *)

\* acquireLayerLock(layerId, timeout = 60): the key is set with ttl timeout * 1000
LockTtlMs == 60000

GsTickMs == 40000
MaxGsClock == 90000

C_REFLECTION_CYCLE_START == <<"R","E","F","L","E","C","T","I","O","N","_","C","Y","C","L","E","_","S","T","A","R","T">>
K_original_directive == <<"o","r","i","g","i","n","a","l","_","d","i","r","e","c","t","i","v","e">>

\* lru.get(key): the key is there and its ttl has not run out
LockHeld(locks, until, layer, t) == layer \in locks /\ t <= until

\* on a held lock acquireLayerLock returns false and lru.get leaves the entry as
\* it is; this variant restarts the ttl of the entry
LockUntilAfterRefusal_Restart(until, t) == t + LockTtlMs

LockUntilAfterRefusal(until, t) == until

\* the directives published to Global Strategy: what Aspirational forwards, with
\* or without content, and the CONTROL of the former reflection cycle
GSDirective(id, type, content) ==
    [id |-> Uuid(id), timestamp |-> Num(1), traceId |-> TraceId,
     sourceLayer |-> "ASPIRATIONAL", targetLayer |-> "GLOBAL_STRATEGY",
     type |-> type, content |-> Str(content), parameters |-> Undefined]

GSDirectives(id) ==
    {GSDirective(id, "IMPERATIVE", CleanContent),
     GSDirective(id, "IMPERATIVE", <<" ">>),
     GSDirective(id, "CONTROL", C_REFLECTION_CYCLE_START)}

\* the STRATEGY handleSouthbound publishes: the directive spread, the id with it
StrategyPacket(p, strategy) ==
    [p EXCEPT !.type = "STRATEGY", !.sourceLayer = "GLOBAL_STRATEGY",
              !.targetLayer = "AGENT_MODEL", !.content = Str(strategy),
              !.parameters = Obj([k \in {K_original_directive} |-> p.id])]

Running(jobs) == {s \in GsSlots : jobs[s].pc # "idle"}

GSStep(op, p) ==
    [op |-> op, packet |-> p, preJobs |-> gsJobs, preLocks |-> layerLocks,
     preUntil |-> gsLockUntil, at |-> now]

\* ids drawn before Global Strategy receives no further directive
MaxGsUuids == 3

\* publishSouthbound of a new directive to Global Strategy, whose handleSouthbound
\* starts by trying the layer lock: the packet is dropped when the lock is held
GSDeliverSouthbound ==
    /\ nextUuid <= MaxGsUuids
    /\ Running(gsJobs) # GsSlots
    /\ \E p \in GSDirectives(nextUuid) :
        /\ publishSouthbound(p, TRUE)
        /\ LET got == "GLOBAL_STRATEGY" \in lastPublish'.invoked
                          /\ ~LockHeld(layerLocks, gsLockUntil, "GLOBAL_STRATEGY", now)
               slot == CHOOSE s \in GsSlots \ Running(gsJobs) :
                           \A o \in GsSlots \ Running(gsJobs) : s <= o IN
           /\ layerLocks' = IF got THEN layerLocks \cup {"GLOBAL_STRATEGY"} ELSE layerLocks
           /\ gsLockUntil' = IF got THEN now + LockTtlMs
                             ELSE LockUntilAfterRefusal(gsLockUntil, now)
           /\ gsJobs' = IF got THEN [gsJobs EXCEPT ![slot] = [pc |-> "body", packet |-> p]]
                        ELSE gsJobs
           /\ lastGS' = GSStep(IF got THEN "acquired" ELSE "dropped", p)
    /\ nextUuid' = nextUuid + 1
    /\ UNCHANGED <<now, gsFrame>>

\* handleSouthbound inside try, up to the language-model calls: empty content and
\* REFLECTION_CYCLE_START return
GSBody ==
    \E s \in GsSlots :
        /\ gsJobs[s].pc = "body"
        /\ LET p == gsJobs[s].packet
               returns == \/ IsBlank(p.content.v)
                          \/ p.targetLayer # "GLOBAL_STRATEGY"
                          \/ p.type = "CONTROL" /\ p.content.v = C_REFLECTION_CYCLE_START IN
           /\ gsJobs' = [gsJobs EXCEPT ![s].pc = IF returns THEN "release" ELSE "llm"]
           /\ lastGS' = GSStep("body", p)
        /\ UNCHANGED <<busVars, layerLocks, gsLockUntil, now, gsFrame>>

\* contextualize and generateStrategy answer (the STRATEGY is published; a publish
\* the bus refuses throws) or throw
GSStrategy ==
    \E s \in GsSlots, llmOk \in BOOLEAN :
        /\ gsJobs[s].pc = "llm"
        /\ IF llmOk
           THEN publishSouthbound(StrategyPacket(gsJobs[s].packet, CleanContent), TRUE)
           ELSE UNCHANGED <<seenPacketIds, busHasLogs, lastPublish, acceptedAt, acceptCount>>
        /\ gsJobs' = [gsJobs EXCEPT ![s].pc = "release"]
        /\ lastGS' = GSStep("strategy", gsJobs[s].packet)
        /\ UNCHANGED <<nextUuid, layerLocks, gsLockUntil, now, gsFrame>>

\* handleSouthbound: finally, releaseLayerLock deletes the key, whoever set it
GSSouthRelease ==
    \E s \in GsSlots :
        /\ gsJobs[s].pc = "release"
        /\ layerLocks' = ReleaseLayerLock(layerLocks, "GLOBAL_STRATEGY")
        /\ gsLockUntil' = 0
        /\ gsJobs' = [gsJobs EXCEPT ![s] = NoJob]
        /\ lastGS' = GSStep("release", gsJobs[s].packet)
        /\ UNCHANGED <<busVars, now, gsFrame>>

\* time passes while the handlers wait for their awaited calls
GSTick ==
    /\ now + GsTickMs <= MaxGsClock
    /\ now' = now + GsTickMs
    /\ UNCHANGED <<busVars, layerLocks, gsVars, gsFrame>>

NextGS ==
    \/ GSDeliverSouthbound
    \/ GSBody
    \/ GSStrategy
    \/ GSSouthRelease
    \/ GSTick

SpecGS == InitCC /\ [][NextGS]_vars

-----------------------------------------------------------------------------
(* Aspirational and Task Prosecution side by side: the layer locks *)

\* ids drawn before the two layers receive no further directive
MaxLockUuids == 2

ALDeliverToLocks ==
    /\ nextUuid <= MaxLockUuids
    /\ ALDeliverSouthbound

TPDeliverToLocks ==
    /\ nextUuid <= MaxLockUuids
    /\ TPDeliverSouthbound

NextLocks ==
    \/ ALDeliverToLocks
    \/ ALAdjudicate
    \/ ALVeto
    \/ ALForward
    \/ ALSouthRelease
    \/ TPDeliverToLocks
    \/ TPSandbox
    \/ TPExecute
    \/ TPHandleReflectionTrigger
    \/ TPReport
    \/ TPSouthRelease

SpecLocks == InitCC /\ [][NextLocks]_vars

-----------------------------------------------------------------------------
(* Overlapping publishes: from the call to the emit *)

MaxCalls == 3

\* the packets of the overlapping publishes: well-formed, harmless, under new
\* ids, for two target layers
OrderSouthbound(id) ==
    WellFormedSouthbound({id}, {"COGNITIVE_CONTROL", "TASK_PROSECUTION"},
                         {CleanContent}, {Undefined})

OrderNorthbound(id) ==
    {[p EXCEPT !.id = Uuid(id)] : p \in CCTelemetry}

Flight(n, dir, p) == [n |-> n, dir |-> dir, target |-> p.targetLayer]

\* a call of publishSouthbound up to its await of storage.logs.logDirective: the
\* schema and the middleware chain have run; lastPublish holds the outcome the
\* call is heading for, the emit itself is OrderEmit
OrderPublishSouthbound ==
    /\ calls < MaxCalls
    /\ \E p \in OrderSouthbound(nextUuid) :
        /\ publishSouthbound(p, TRUE)
        /\ flight' = IF lastPublish'.outcome = "delivered"
                     THEN Append(flight, Flight(calls + 1, "S", p)) ELSE flight
    /\ calls' = calls + 1
    /\ nextUuid' = nextUuid + 1
    /\ UNCHANGED <<emitted, orderFrame>>

\* a call of publishNorthbound up to its await of storage.logs.logTelemetry
OrderPublishNorthbound ==
    /\ calls < MaxCalls
    /\ \E p \in OrderNorthbound(nextUuid) :
        /\ publishNorthbound(p, TRUE)
        /\ flight' = IF lastPublish'.outcome = "delivered"
                     THEN Append(flight, Flight(calls + 1, "N", p)) ELSE flight
    /\ calls' = calls + 1
    /\ nextUuid' = nextUuid + 1
    /\ UNCHANGED <<emitted, orderFrame>>

\* the log write one of the calls awaits settles (fulfilled, or rejected and
\* caught), and that call emits to the subscribers of its target layer; the bus
\* does not decide which write settles first
OrderEmit ==
    /\ \E i \in 1..Len(flight) :
        /\ emitted' = Append(emitted, flight[i])
        /\ flight' = SubSeq(flight, 1, i - 1) \o SubSeq(flight, i + 1, Len(flight))
    /\ UNCHANGED <<calls, busVars, orderFrame>>

NextOrder ==
    \/ OrderPublishSouthbound
    \/ OrderPublishNorthbound
    \/ OrderEmit

SpecOrder == InitCC /\ [][NextOrder]_vars

-----------------------------------------------------------------------------
(* The middleware chain of a publish *)

\* middlewares registered with use() after the Security Overlay, per direction
MaxMiddlewares == 2

\* ids drawn by the publishes through the chain
MaxChainUuids == 1

\* what a registered middleware does with its continuation: "await" does its
\* work and awaits next(), "throw" throws before calling next, "return" returns
\* without calling next
MiddlewareKinds == {"await", "throw", "return"}

\* const next = ...: this.sbMiddlewares[index++]
NextIndex_SkipOne(index) == index + 2

NextIndex(index) == index + 1

\* next() from index on, over the middlewares registered after the overlay: the
\* indexes that ran, in the order they started, and the error that came back
RECURSIVE RunFrom(_, _)
RunFrom(mws, index) ==
    IF index > Len(mws) THEN [ran |-> <<>>, err |-> "none"]
    ELSE IF mws[index] = "throw" THEN [ran |-> <<index>>, err |-> "Error"]
    ELSE IF mws[index] = "return" THEN [ran |-> <<index>>, err |-> "none"]
    ELSE LET rest == RunFrom(mws, NextIndex(index)) IN
         [ran |-> <<index>> \o rest.ran, err |-> rest.err]

\* publishSouthbound over the chain: the overlay is index 0
ChainSouthbound(seen, p, mws, logOk) ==
    IF ~SouthboundSchema(p)
    THEN [outcome |-> "ValidationError", why |-> "schema", seen |-> seen, out |-> p,
          logged |-> FALSE, invoked |-> {}, ran |-> <<>>]
    ELSE LET m == MonitorSouthbound(seen, p)
             rest == RunFrom(mws, NextIndex(0)) IN
         IF m.err # "none"
         THEN [outcome |-> m.err, why |-> m.why, seen |-> m.seen, out |-> p,
               logged |-> FALSE, invoked |-> {}, ran |-> <<0>>]
         ELSE IF rest.err # "none"
         THEN [outcome |-> rest.err, why |-> "middleware", seen |-> m.seen, out |-> p,
               logged |-> FALSE, invoked |-> {}, ran |-> <<0>> \o rest.ran]
         ELSE [outcome |-> "delivered", why |-> "none", seen |-> m.seen, out |-> p,
               logged |-> busHasLogs /\ logOk,
               invoked |-> {p.targetLayer} \cap Subscribers, ran |-> <<0>> \o rest.ran]

\* publishNorthbound over the chain: the overlay redacts and continues
ChainNorthbound(seen, p, mws, logOk) ==
    IF ~NorthboundSchema(p)
    THEN [outcome |-> "ValidationError", why |-> "schema", seen |-> seen, out |-> p,
          logged |-> FALSE, invoked |-> {}, ran |-> <<>>]
    ELSE LET rest == RunFrom(mws, NextIndex(0)) IN
         IF rest.err # "none"
         THEN [outcome |-> rest.err, why |-> "middleware", seen |-> seen,
               out |-> MonitorNorthbound(p),
               logged |-> FALSE, invoked |-> {}, ran |-> <<0>> \o rest.ran]
         ELSE [outcome |-> "delivered", why |-> "none", seen |-> seen,
               out |-> MonitorNorthbound(p), logged |-> busHasLogs /\ logOk,
               invoked |-> {p.targetLayer} \cap Subscribers, ran |-> <<0>> \o rest.ran]

\* use(direction, middleware): push
ChainUse ==
    /\ \E dir \in {"S", "N"}, kind \in MiddlewareKinds :
        /\ Len(chains[dir]) < MaxMiddlewares
        /\ chains' = [chains EXCEPT ![dir] = Append(chains[dir], kind)]
    /\ UNCHANGED <<lastChain, busVars, chainFrame>>

ChainContents == {CleanContent, Embed(PROHIBITED_COMMANDS[1])}

ChainPublish(dir, p, r) ==
    /\ seenPacketIds' = r.seen
    /\ lastPublish' = [dir |-> dir, packet |-> p, outcome |-> r.outcome, why |-> r.why,
                       invoked |-> r.invoked, logged |-> r.logged, out |-> r.out,
                       gap |-> -1]
    /\ lastChain' = [dir |-> dir, ran |-> r.ran, registered |-> chains[dir],
                     seenBefore |-> seenPacketIds]
    /\ acceptCount' = IF dir = "S" /\ r.why \notin {"schema", "prohibited", "duplicate"}
                      THEN acceptCount + 1 ELSE acceptCount
    /\ nextUuid' = nextUuid + 1
    /\ UNCHANGED <<busHasLogs, acceptedAt, chains, chainFrame>>

ChainPublishSouthbound ==
    /\ nextUuid <= MaxChainUuids
    /\ \E p \in WellFormedSouthbound({nextUuid}, {"COGNITIVE_CONTROL"}, ChainContents,
                                     {Undefined}),
          logOk \in BOOLEAN :
        ChainPublish("S", p, ChainSouthbound(seenPacketIds, p, chains["S"], logOk))

ChainPublishNorthbound ==
    /\ nextUuid <= MaxChainUuids
    /\ \E p \in OrderNorthbound(nextUuid), logOk \in BOOLEAN :
        ChainPublish("N", p, ChainNorthbound(seenPacketIds, p, chains["N"], logOk))

NextChain ==
    \/ ChainUse
    \/ ChainPublishSouthbound
    \/ ChainPublishNorthbound

SpecChain == InitCC /\ [][NextChain]_vars

-----------------------------------------------------------------------------
(* Agent Model: handleSouthbound and validateStrategy *)

\* AgentModelLayer.DEFAULT_RISK_THRESHOLD, which the engine leaves in place
riskThreshold == 3

\* the largest risk_level the language model answers with
MaxRawRisk == 11

K_capabilities_used == <<"capabilities_used">>
C_CAPABILITY_ERROR == <<"C","a","p","a","b","i","l","i","t","y"," ","E","r","r","o","r">>

\* risk_level of the analysis: absent, or a number on whatever scale
RawRiskLevels == {Undefined} \cup {Num(n) : n \in 0..MaxRawRisk}

\* validateStrategy: above 5 is read as a 1-10 scale and halved (Math.ceil),
\* then clamped to 1..5; a comparison with undefined is false
NormalizeRisk(r) ==
    IF r.t # "number" THEN r
    ELSE LET halved == IF r.v > 5 THEN (r.v + 1) \div 2 ELSE r.v
             raised == IF halved < 1 THEN 1 ELSE halved IN
         Num(IF raised > 5 THEN 5 ELSE raised)

\* what validateStrategy returns: the analysis with riskLevel, or after a failed
\* call { valid: false } with no riskLevel
Validations ==
    {[valid |-> v, riskLevel |-> NormalizeRisk(r)] : v \in BOOLEAN, r \in RawRiskLevels}
    \cup {[valid |-> FALSE, riskLevel |-> Undefined]}

\* validation.riskLevel && validation.riskLevel > this.riskThreshold
ExceedsThreshold(validation) ==
    /\ validation.riskLevel.t = "number"
    /\ validation.riskLevel.v # 0
    /\ validation.riskLevel.v > riskThreshold

\* the directives delivered to Agent Model: STRATEGY with and without content,
\* and a directive of another type
AMDirective(id, type, content) ==
    [id |-> Uuid(id), timestamp |-> Num(1), traceId |-> TraceId,
     sourceLayer |-> "GLOBAL_STRATEGY", targetLayer |-> "AGENT_MODEL",
     type |-> type, content |-> Str(content), parameters |-> Undefined]

AMDirectives(id) ==
    {AMDirective(id, "STRATEGY", CleanContent),
     AMDirective(id, "STRATEGY", <<" ">>),
     AMDirective(id, "CONTROL", CleanContent)}

\* the PLAN handleSouthbound publishes: the STRATEGY spread, the id with it
PlanPacket(p) ==
    [p EXCEPT !.type = "PLAN", !.sourceLayer = "AGENT_MODEL",
              !.targetLayer = "EXECUTIVE_FUNCTION",
              !.parameters = Obj([k \in {K_capabilities_used} |-> Undefined])]

\* the CAPABILITY_ERROR handleSouthbound publishes, under an id of its own
CapabilityError(id, p) ==
    [id |-> Uuid(id), timestamp |-> Num(1), traceId |-> p.traceId,
     sourceLayer |-> "AGENT_MODEL", targetLayer |-> "GLOBAL_STRATEGY",
     type |-> "CAPABILITY_ERROR", summary |-> Str(C_CAPABILITY_ERROR),
     data |-> Obj(<<>>)]

\* ids drawn before Agent Model receives no further directive
MaxAmUuids == 3

\* publishSouthbound of a new directive to Agent Model, whose handleSouthbound
\* starts by trying the layer lock: the packet is dropped when the lock is held
AMDeliverSouthbound ==
    /\ nextUuid <= MaxAmUuids
    /\ \E p \in AMDirectives(nextUuid) :
        /\ publishSouthbound(p, TRUE)
        /\ LET got == "AGENT_MODEL" \in lastPublish'.invoked
                          /\ AcquireLayerLock(layerLocks, "AGENT_MODEL") IN
           /\ layerLocks' = IF got THEN layerLocks \cup {"AGENT_MODEL"} ELSE layerLocks
           /\ amSouth' = IF got THEN [NoAMJob EXCEPT !.pc = "body", !.packet = p]
                         ELSE amSouth
           /\ lastAM' = [NoAMJob EXCEPT !.op = IF got THEN "acquired" ELSE "dropped",
                                        !.packet = p]
    /\ nextUuid' = nextUuid + 1
    /\ UNCHANGED <<amFrame>>

\* handleSouthbound inside try, up to the return of validateStrategy: empty
\* content and a directive that is no STRATEGY for this layer leave the handler
AMValidate ==
    /\ amSouth.pc = "body"
    /\ LET p == amSouth.packet IN
       \E validation \in Validations :
        \E j \in {IF IsBlank(p.content.v)
                  THEN [amSouth EXCEPT !.pc = "release", !.exit = "empty"]
                  ELSE IF ~(p.targetLayer = "AGENT_MODEL" /\ p.type = "STRATEGY")
                  THEN [amSouth EXCEPT !.pc = "release", !.exit = "other"]
                  ELSE [amSouth EXCEPT !.pc = "decide", !.validation = validation]} :
            /\ amSouth' = j
            /\ lastAM' = [j EXCEPT !.op = "validate"]
    /\ UNCHANGED <<busVars, layerLocks, amFrame>>

\* handleSouthbound after validateStrategy: CAPABILITY_ERROR for a risk level
\* above the threshold, the PLAN for a valid strategy, CAPABILITY_ERROR otherwise;
\* a publish the bus refuses throws out of the handler
AMDecide ==
    /\ amSouth.pc = "decide"
    /\ LET p == amSouth.packet
           reject == ExceedsThreshold(amSouth.validation) \/ ~amSouth.validation.valid IN
       /\ IF reject
          THEN /\ publishNorthbound(CapabilityError(nextUuid, p), TRUE)
               /\ nextUuid' = nextUuid + 1
          ELSE /\ publishSouthbound(PlanPacket(p), TRUE)
               /\ UNCHANGED nextUuid
       /\ \E j \in {[amSouth EXCEPT
                      !.pc = "release",
                      !.exit = IF lastPublish'.outcome = "delivered" THEN "done"
                               ELSE "threw",
                      !.plans = IF ~reject /\ lastPublish'.outcome = "delivered"
                                   /\ lastPublish'.invoked = {"EXECUTIVE_FUNCTION"}
                                THEN 1 ELSE 0,
                      !.errors = IF reject /\ lastPublish'.outcome = "delivered"
                                    /\ lastPublish'.invoked = {"GLOBAL_STRATEGY"}
                                 THEN 1 ELSE 0]} :
            /\ amSouth' = j
            /\ lastAM' = [j EXCEPT !.op = "decide"]
    /\ UNCHANGED <<layerLocks, amFrame>>

\* handleSouthbound: finally, releaseLayerLock
AMSouthRelease ==
    /\ amSouth.pc = "release"
    /\ layerLocks' = ReleaseLayerLock(layerLocks, "AGENT_MODEL")
    /\ lastAM' = [amSouth EXCEPT !.op = "release", !.pc = "idle"]
    /\ amSouth' = NoAMJob
    /\ UNCHANGED <<busVars, amFrame>>

NextAM ==
    \/ AMDeliverSouthbound
    \/ AMValidate
    \/ AMDecide
    \/ AMSouthRelease

SpecAM == InitCC /\ [][NextAM]_vars

-----------------------------------------------------------------------------
(* Sessions: SessionManagerImpl over the sessions table of SQLiteStorage *)

\* Date.now() values reached while sessions are followed
MaxSmClock == 2

\* goal ids of the strategies
GoalIds == {"g1"}

\* the row createSession inserts
NewRow(t) == [exists |-> TRUE, status |-> "active", lastActivityAt |-> t,
              activeGoals |-> <<>>, metadata |-> {}, reflectionCount |-> 0]

\* Array.includes, push and filter on activeGoals
HasGoal(goals, g) == \E i \in 1..Len(goals) : goals[i] = g

RECURSIVE WithoutGoal(_, _)
WithoutGoal(goals, g) ==
    IF goals = <<>> THEN <<>>
    ELSE IF Head(goals) = g THEN WithoutGoal(Tail(goals), g)
    ELSE <<Head(goals)>> \o WithoutGoal(Tail(goals), g)

\* SessionManagerImpl.getSession: the cache first, then the table
GetSession(cache, rows, s) == IF cache[s].exists THEN cache[s] ELSE rows[s]

\* SQLiteStorage.getActiveSessions: status = 'active' AND last_activity_at > ?
SqlActiveSessions(rows, cutoffTime) ==
    {s \in SmSessions : /\ rows[s].exists
                        /\ rows[s].status = "active"
                        /\ rows[s].lastActivityAt > cutoffTime}

\* SQLiteStorage.getAllUnarchivedSessions: status != 'archived'
SqlAllUnarchivedSessions(rows) ==
    {s \in SmSessions : rows[s].exists /\ rows[s].status # "archived"}

\* the cutoffTime arguments of getActiveSessions: none, -1 and clock values
CutoffTimes == {Undefined} \cup {Num(c) : c \in -1..MaxSmClock}

\* SessionManagerImpl.getActiveSessions: -1 asks for every unarchived session,
\* no argument for the sessions active within the last hour
getActiveSessions(rows, cutoffTime, t) ==
    IF cutoffTime = Num(-1) THEN SqlAllUnarchivedSessions(rows)
    ELSE SqlActiveSessions(rows, IF cutoffTime = Undefined THEN t - 3600000
                                 ELSE cutoffTime.v)

SMStep(op, s, by) ==
    [op |-> op, sessionId |-> s, by |-> by, changed |-> sessionRows' # sessionRows]

\* createSession: the INSERT fails on an existing session_id and the call throws
\* before the cache is set
SMCreateSession ==
    \E s \in SmSessions :
        /\ IF sessionRows[s].exists
           THEN UNCHANGED <<sessionRows, sessionCache>>
           ELSE /\ sessionRows' = [sessionRows EXCEPT ![s] = NewRow(now)]
                /\ sessionCache' = [sessionCache EXCEPT ![s] = NewRow(now)]
        /\ lastSM' = SMStep("createSession", s, "SessionManager")
        /\ UNCHANGED <<gsSession, archivedDone, now, smFrame>>

\* getSession: a row read from the table is put in the cache
SMGetSession ==
    \E s \in SmSessions :
        /\ sessionCache' = [sessionCache EXCEPT ![s] = GetSession(sessionCache, sessionRows, s)]
        /\ sessionRows' = sessionRows
        /\ lastSM' = SMStep("getSession", s, "SessionManager")
        /\ UNCHANGED <<gsSession, archivedDone, now, smFrame>>

\* updateSessionActivity: lastActivityAt and status 'active' are written to the
\* session, the table and the cache
UpdateSessionActivity(s) ==
    \E session \in {GetSession(sessionCache, sessionRows, s)} :
        IF session.exists
        THEN \E updated \in {[session EXCEPT !.lastActivityAt = now,
                                             !.status = "active"]} :
             /\ sessionRows' = [sessionRows EXCEPT
                                  ![s].lastActivityAt = updated.lastActivityAt,
                                  ![s].status = updated.status]
             /\ sessionCache' = [sessionCache EXCEPT ![s] = updated]
        ELSE UNCHANGED <<sessionRows, sessionCache>>

\* AceEngine.updateSessionActivity
SMUpdateSessionActivity ==
    \E s \in SmSessions :
        /\ UpdateSessionActivity(s)
        /\ lastSM' = SMStep("updateSessionActivity", s, "SessionManager")
        /\ UNCHANGED <<gsSession, archivedDone, now, smFrame>>

\* archiveSession: status 'archived' is written to the table and the session
\* leaves the cache
SMArchiveSession ==
    \E s \in SmSessions :
        /\ IF GetSession(sessionCache, sessionRows, s).exists
           THEN /\ sessionRows' = [sessionRows EXCEPT ![s].status = "archived"]
                /\ sessionCache' = [sessionCache EXCEPT ![s] = NoRow]
                /\ archivedDone' = archivedDone \cup {s}
           ELSE UNCHANGED <<sessionRows, sessionCache, archivedDone>>
        /\ lastSM' = SMStep("archiveSession", s, "SessionManager")
        /\ UNCHANGED <<gsSession, now, smFrame>>

\* addGoalToSession: the goals of the session object are written to the table
SMAddGoalToSession ==
    \E s \in SmSessions, g \in GoalIds :
        /\ \E session \in {GetSession(sessionCache, sessionRows, s)} :
            IF session.exists /\ ~HasGoal(session.activeGoals, g)
            THEN \E updated \in {[session EXCEPT !.activeGoals = @ \o <<g>>]} :
                 /\ sessionRows' = [sessionRows EXCEPT
                                      ![s].activeGoals = updated.activeGoals]
                 /\ sessionCache' = [sessionCache EXCEPT ![s] = updated]
            ELSE UNCHANGED <<sessionRows, sessionCache>>
        /\ lastSM' = SMStep("addGoalToSession", s, "SessionManager")
        /\ UNCHANGED <<gsSession, archivedDone, now, smFrame>>

\* removeGoalFromSession: SQLiteStorage.removeGoalFromSession rewrites the goals
\* of the row, then getSession
SMRemoveGoalFromSession ==
    \E s \in SmSessions, g \in GoalIds :
        /\ sessionRows' =
              IF sessionRows[s].exists
              THEN [sessionRows EXCEPT ![s].activeGoals = WithoutGoal(@, g)]
              ELSE sessionRows
        /\ sessionCache' = [sessionCache EXCEPT
                              ![s] = GetSession(sessionCache, sessionRows', s)]
        /\ lastSM' = SMStep("removeGoalFromSession", s, "SessionManager")
        /\ UNCHANGED <<gsSession, archivedDone, now, smFrame>>

\* Global Strategy, handleSouthbound for a directive that carries a sessionId:
\* sessionManager.updateSessionActivity before the strategy is generated
GSSessionActivity ==
    /\ gsSession = ""
    /\ \E s \in SmSessions :
        /\ UpdateSessionActivity(s)
        /\ gsSession' = s
        /\ lastSM' = SMStep("updateSessionActivity", s, "SessionManager")
    /\ UNCHANGED <<archivedDone, now, smFrame>>

\* SQLiteStorage.addGoalForSession: the goal is appended to the activeGoals of
\* the row unless it is there
AddGoalForSession(rows, s, g) ==
    IF rows[s].exists /\ ~HasGoal(rows[s].activeGoals, g)
    THEN [rows EXCEPT ![s].activeGoals = @ \o <<g>>]
    ELSE rows

RECURSIVE AddGoalsForSession(_, _, _)
AddGoalsForSession(rows, s, goals) ==
    IF goals = <<>> THEN rows
    ELSE AddGoalsForSession(AddGoalForSession(rows, s, Head(goals)), s, Tail(goals))

\* extractGoalsFromStrategy: the numbered lines of the strategy, none or one
GoalLists == {<<>>} \cup {<<g>> : g \in GoalIds}

\* Global Strategy, handleSouthbound after generateStrategy: the goals extracted
\* from the strategy are stored by storage.sqlite.addGoalForSession; a failed
\* call of the language model ends the handler with none stored
GSSessionGoals ==
    /\ gsSession # ""
    /\ \E goals \in GoalLists :
        /\ sessionRows' = AddGoalsForSession(sessionRows, gsSession, goals)
        /\ lastSM' = SMStep("addGoalForSession", gsSession, "GlobalStrategy")
    /\ gsSession' = ""
    /\ UNCHANGED <<sessionCache, archivedDone, now, smFrame>>

\* time passes
SMTick ==
    /\ now < MaxSmClock
    /\ now' = now + 1
    /\ lastSM' = [NoSMStep EXCEPT !.op = "tick"]
    /\ UNCHANGED <<sessionRows, sessionCache, gsSession, archivedDone, smFrame>>

NextSession ==
    \/ SMCreateSession
    \/ SMGetSession
    \/ SMUpdateSessionActivity
    \/ SMArchiveSession
    \/ SMAddGoalToSession
    \/ SMRemoveGoalFromSession
    \/ GSSessionActivity
    \/ GSSessionGoals
    \/ SMTick

SpecSession == InitCC /\ [][NextSession]_vars

-----------------------------------------------------------------------------
(* Sessions: the operations of SessionManagerImpl, metadata and reflection    *)
(* state included.  Metadata is a set of <<key, value>> pairs.                *)

\* updateReflectionState calls followed per session
MaxReflections == 1

\* the metadata arguments of updateSessionMetadata
MetadataInputs == {{<<"a", Num(1)>>}, {<<"b", Num(1)>>}, {<<"a", Num(2)>>}}

\* {...(session.metadata || {}), ...metadata}
MergeMetadata(old, new) ==
    {e \in old : ~\E n \in new : n[1] = e[1]} \cup new

\* JSON.parse(JSON.stringify(metadata)): what the row gives back for the
\* metadata written; a key whose value is undefined is left out
StoredMetadata(metadata) == {e \in metadata : e[2].t # "undefined"}

\* updateSessionMetadata: the merged metadata is written to the session object,
\* the table and the cache
SMUpdateSessionMetadata ==
    \E s \in SmSessions, metadata \in MetadataInputs :
        /\ \E session \in {GetSession(sessionCache, sessionRows, s)} :
            IF session.exists
            THEN \E updated \in {[session EXCEPT
                                    !.metadata = MergeMetadata(@, metadata)]} :
                 /\ sessionRows' = [sessionRows EXCEPT
                                      ![s].metadata = StoredMetadata(updated.metadata)]
                 /\ sessionCache' = [sessionCache EXCEPT ![s] = updated]
            ELSE UNCHANGED <<sessionRows, sessionCache>>
        /\ lastSM' = SMStep("updateSessionMetadata", s, "SessionManager")
        /\ UNCHANGED <<gsSession, archivedDone, now, smFrame>>

\* updateReflectionState: the reflection fields are written to the session
\* object, the table and the cache
SMUpdateReflectionState ==
    \E s \in SmSessions :
        /\ \E session \in {GetSession(sessionCache, sessionRows, s)} :
            /\ session.reflectionCount < MaxReflections
            /\ IF session.exists
               THEN \E updated \in {[session EXCEPT !.reflectionCount = @ + 1]} :
                    /\ sessionRows' = [sessionRows EXCEPT
                                         ![s].reflectionCount = updated.reflectionCount]
                    /\ sessionCache' = [sessionCache EXCEPT ![s] = updated]
               ELSE UNCHANGED <<sessionRows, sessionCache>>
        /\ lastSM' = SMStep("updateReflectionState", s, "SessionManager")
        /\ UNCHANGED <<gsSession, archivedDone, now, smFrame>>

NextSessionOps ==
    \/ SMCreateSession
    \/ SMGetSession
    \/ SMUpdateSessionActivity
    \/ SMArchiveSession
    \/ SMAddGoalToSession
    \/ SMRemoveGoalFromSession
    \/ SMUpdateSessionMetadata
    \/ SMUpdateReflectionState

SpecSessionOps == InitCC /\ [][NextSessionOps]_vars

-----------------------------------------------------------------------------
(* Cognitive Control under the packets of several sessions.  The layer is run *)
(* twice: on every packet, and on the packets of session s1 alone.            *)

\* the session whose outcome is compared, and the sessions packets carry
ThisSession == "s1"
FocusSessions == {"s1", "s2"}

\* ids drawn and failures counted before no further packet is followed
MaxFocusUuids == 2
MaxFocusFailures == 3

\* an INSTRUCTION or a CONTROL 'BLOCKED' of a session, addressed to Cognitive Control
FocusDirectives(id) ==
    {[sessionId |-> sid] @@ CCDirective(id, "INSTRUCTION", CleanContent) :
        sid \in FocusSessions}
    \cup {[sessionId |-> sid] @@ CCDirective(id, "CONTROL", C_BLOCKED) :
        sid \in FocusSessions}

\* packet.sessionId
SessionOf(p) == p.sessionId

\* the RESULTs and FAILUREs of Task Prosecution, per session
FocusTelemetry ==
    {[id |-> Uuid(1), timestamp |-> Num(1), traceId |-> TraceId, sessionId |-> sid,
      sourceLayer |-> "TASK_PROSECUTION", targetLayer |-> "COGNITIVE_CONTROL",
      type |-> type, summary |-> Str(<<"o","k">>), data |-> Undefined] :
        sid \in FocusSessions, type \in {"RESULT", "FAILURE"}}

\* handleSouthbound on the fields of the layer: an INSTRUCTION for this layer
\* zeroes the counter and sets EXECUTING, a CONTROL 'BLOCKED' sets BLOCKED
SouthboundEffect(state, count, p) ==
    IF IsBlank(p.content.v) THEN [state |-> state, count |-> count]
    ELSE IF p.targetLayer = "COGNITIVE_CONTROL" /\ p.type = "INSTRUCTION"
    THEN [state |-> "EXECUTING", count |-> 0]
    ELSE IF p.type = "CONTROL" /\ p.content.v = C_BLOCKED
    THEN [state |-> "BLOCKED", count |-> count]
    ELSE [state |-> state, count |-> count]

\* handleNorthbound on the fields of the layer: a RESULT of Task Prosecution
\* resets them while EXECUTING or BLOCKED, a FAILURE counts and at the
\* threshold sets FRUSTRATED and publishes the signal
NorthboundEffect(state, count, p, telemetryOk) ==
    LET processed == ~IsBlank(p.summary.v) /\ telemetryOk
        fromTP == p.sourceLayer = "TASK_PROSECUTION"
        result == processed /\ fromTP /\ p.type = "RESULT"
        failure == processed /\ fromTP /\ p.type = "FAILURE"
        counted == IF failure THEN count + 1 ELSE count
        frustrated == failure /\ counted >= FRUSTRATION_THRESHOLD IN
    [state |-> IF result /\ ResultResets(state) THEN "IDLE"
               ELSE IF frustrated THEN "FRUSTRATED" ELSE state,
     count |-> IF result /\ ResultResets(state) THEN 0 ELSE counted,
     signal |-> frustrated]

\* publishSouthbound of a directive of some session to Cognitive Control;
\* handleSouthbound acquires the layer lock when it is free
FocusDeliverSouthbound ==
    /\ nextUuid <= MaxFocusUuids
    /\ \E p \in FocusDirectives(nextUuid) :
        /\ publishSouthbound(p, TRUE)
        /\ LET got == "COGNITIVE_CONTROL" \in lastPublish'.invoked
                          /\ AcquireLayerLock(layerLocks, "COGNITIVE_CONTROL") IN
           /\ layerLocks' = IF got THEN layerLocks \cup {"COGNITIVE_CONTROL"} ELSE layerLocks
           /\ ccSouth' = IF got THEN [pc |-> "body", packet |-> p] ELSE ccSouth
           /\ lastFocus' = [NoFocusStep EXCEPT !.op = IF got THEN "acquired" ELSE "dropped",
                                               !.sessionId = SessionOf(p),
                                               !.type = p.type]
    /\ nextUuid' = nextUuid + 1
    /\ UNCHANGED <<focusState, failureCount, twinState, twinCount, outcomeRun, focusFrame>>

\* the body of handleSouthbound and its finally block: the fields are set, the
\* INSTRUCTION is forwarded as CONTROL, the lock is released
FocusSouthBody ==
    /\ ccSouth.pc = "body"
    /\ LET p == ccSouth.packet
           real == SouthboundEffect(focusState, failureCount, p)
           twin == IF SessionOf(p) = ThisSession
                   THEN SouthboundEffect(twinState, twinCount, p)
                   ELSE [state |-> twinState, count |-> twinCount] IN
       /\ focusState' = real.state
       /\ failureCount' = real.count
       /\ twinState' = twin.state
       /\ twinCount' = twin.count
       /\ IF p.type = "INSTRUCTION"
          THEN publishSouthbound(ForwardedControl(p), TRUE)
          ELSE UNCHANGED <<seenPacketIds, busHasLogs, lastPublish, acceptedAt, acceptCount>>
       /\ lastFocus' = [NoFocusStep EXCEPT !.op = "southbound",
                                           !.sessionId = SessionOf(p), !.type = p.type]
    /\ layerLocks' = ReleaseLayerLock(layerLocks, "COGNITIVE_CONTROL")
    /\ ccSouth' = NoJob
    /\ UNCHANGED <<nextUuid, outcomeRun, focusFrame>>

\* handleNorthbound for a RESULT or FAILURE of some session; the run of session
\* s1 alone handles it only when it is of that session
FocusHandleNorthbound ==
    /\ nextUuid <= MaxFocusUuids
    /\ failureCount < MaxFocusFailures
    /\ \E p \in FocusTelemetry, telemetryOk \in BOOLEAN :
        LET real == NorthboundEffect(focusState, failureCount, p, telemetryOk)
            twin == IF SessionOf(p) = ThisSession
                    THEN NorthboundEffect(twinState, twinCount, p, telemetryOk)
                    ELSE [state |-> twinState, count |-> twinCount, signal |-> FALSE] IN
        /\ focusState' = real.state
        /\ failureCount' = real.count
        /\ twinState' = twin.state
        /\ twinCount' = twin.count
        /\ IF real.signal
           THEN /\ publishNorthbound(FrustrationSignal(nextUuid, p, real.count), TRUE)
                /\ nextUuid' = nextUuid + 1
           ELSE UNCHANGED busVars
        /\ outcomeRun' = IF p.type = "FAILURE"
                         THEN (IF outcomeRun < FRUSTRATION_THRESHOLD
                               THEN outcomeRun + 1 ELSE outcomeRun)
                         ELSE IF telemetryOk THEN 0 ELSE outcomeRun
        /\ lastFocus' = [op |-> "northbound", sessionId |-> SessionOf(p), type |-> p.type,
                         signal |-> real.signal /\ lastPublish'.outcome = "delivered",
                         twinSignal |-> twin.signal]
    /\ UNCHANGED <<layerLocks, ccSouth, focusFrame>>

\* resetState(), in both runs
FocusResetState ==
    /\ focusState' = "IDLE"
    /\ failureCount' = 0
    /\ twinState' = "IDLE"
    /\ twinCount' = 0
    /\ lastFocus' = [NoFocusStep EXCEPT !.op = "resetState"]
    /\ UNCHANGED <<busVars, layerLocks, ccSouth, outcomeRun, focusFrame>>

NextFocus ==
    \/ FocusDeliverSouthbound
    \/ FocusSouthBody
    \/ FocusHandleNorthbound
    \/ FocusResetState

SpecFocus == InitCC /\ [][NextFocus]_vars

-----------------------------------------------------------------------------
(* ReflectionTriggerEngine on concrete states: compareStates and              *)
(* checkPredictionError                                                       *)

\* typeof
TypeOf(x) == IF x.t = "null" THEN "object" ELSE x.t

\* exp[key]: undefined for a key the object does not have
Field(o, key) == IF key \in DOMAIN o.v THEN o.v[key] ELSE Undefined

\* exp === act for two values that are not both objects
StrictEquals(x, y) == x.t = y.t /\ (x.t \in {"number", "string"} => x.v = y.v)

\* compare(exp, act) of compareStates: what it adds to totalDifference and to
\* fieldCount
RECURSIVE Compare(_, _), CompareKeys(_, _, _)
Compare(exp, act) ==
    IF TypeOf(exp) # TypeOf(act)
    THEN [totalDifference |-> 1, fieldCount |-> 1]
    ELSE IF TypeOf(exp) = "object" /\ exp.t # "null" /\ act.t # "null"
    THEN CompareKeys(exp, act, DOMAIN exp.v \cup DOMAIN act.v)
    ELSE [totalDifference |-> IF StrictEquals(exp, act) THEN 0 ELSE 1, fieldCount |-> 1]

\* for (const key of keys) compare(exp[key], act[key], ...)
CompareKeys(exp, act, keys) ==
    IF keys = {} THEN [totalDifference |-> 0, fieldCount |-> 0]
    ELSE LET key == CHOOSE k \in keys : TRUE
             one == Compare(Field(exp, key), Field(act, key))
             rest == CompareKeys(exp, act, keys \ {key}) IN
         [totalDifference |-> one.totalDifference + rest.totalDifference,
          fieldCount |-> one.fieldCount + rest.fieldCount]

\* compareStates(expected, actual).difference as the quotient num / den:
\* fieldCount > 0 ? totalDifference / fieldCount : 0
compareStates(expected, actual) ==
    LET c == Compare(expected, actual) IN
    [num |-> c.totalDifference, den |-> IF c.fieldCount > 0 THEN c.fieldCount ELSE 1]

\* comparison.difference > threshold, the threshold in tenths
ExceedsPredictionThreshold(difference) ==
    10 * difference.num > predictionErrorThreshold * difference.den

\* the levels with the limits taken inclusive
determineReflectionLevelOf_Inclusive(num, den) ==
    IF 10 * num <= 5 * den THEN "LOCAL"
    ELSE IF 10 * num <= 8 * den THEN "STRATEGIC"
    ELSE "ASPIRATIONAL"

\* determineReflectionLevel on the quotient num / den: < 0.5, < 0.8, else
determineReflectionLevelOf(num, den) ==
    IF 10 * num < 5 * den THEN "LOCAL"
    ELSE IF 10 * num < 8 * den THEN "STRATEGIC"
    ELSE "ASPIRATIONAL"

\* fields of the flat states compared
MaxFields == 5

FieldNames == <<"a", "b", "c", "d", "e", "f", "g">>

\* an object of n number fields of which the first k differ from FlatState(n, 0)
FlatState(n, k) ==
    Obj([key \in {FieldNames[i] : i \in 1..n} |->
            IF \E i \in 1..k : FieldNames[i] = key THEN Num(2) ELSE Num(1)])

\* two objects of five fields each under the keys p and q, k leaves differing
NestedState(k) ==
    Obj([key \in {"p", "q"} |->
            IF key = "p" THEN FlatState(5, IF k < 5 THEN k ELSE 5)
            ELSE FlatState(5, IF k > 5 THEN k - 5 ELSE 0)])

\* the expected and actual states handed to checkPredictionError
StatePairs ==
    {[expected |-> FlatState(n, 0), actual |-> FlatState(n, k)] :
         n \in 1..MaxFields, k \in 0..MaxFields}
    \cup {[expected |-> NestedState(0), actual |-> NestedState(k)] : k \in 0..10}
    \cup {[expected |-> Num(1), actual |-> Str(<<"1">>)],
          [expected |-> Null, actual |-> FlatState(1, 0)],
          [expected |-> FlatState(2, 0), actual |-> Null],
          [expected |-> Null, actual |-> Null],
          [expected |-> Undefined, actual |-> Undefined],
          [expected |-> Obj(<<>>), actual |-> Obj(<<>>)],
          [expected |-> FlatState(3, 0), actual |-> FlatState(2, 0)],
          [expected |-> FlatState(2, 0), actual |-> Num(1)],
          [expected |-> Obj([key \in {"p"} |-> FlatState(2, 0)]),
           actual |-> Obj([key \in {"p"} |-> Num(1)])]}

\* checkPredictionError(traceId, expectedState, actualState, sessionId)
PredictionErrorCheck ==
    /\ \E sid \in SessionIds, pair \in StatePairs :
        LET c == Compare(pair.expected, pair.actual)
            difference == compareStates(pair.expected, pair.actual)
            key == CooldownKey("PREDICTION_ERROR", sid)
            exceeds == ExceedsPredictionThreshold(difference)
            r == IF exceeds THEN CheckCooldown(cooldownMap, key, now)
                 ELSE [ok |-> FALSE, map |-> cooldownMap] IN
        /\ cooldownMap' = r.map
        /\ lastPredict' = [op |-> "check", expected |-> pair.expected,
                           actual |-> pair.actual,
                           totalDifference |-> c.totalDifference,
                           fieldCount |-> c.fieldCount,
                           cooled |-> ~(now < cooldownMap[key]),
                           returned |-> r.ok,
                           level |-> IF r.ok
                                     THEN determineReflectionLevelOf(difference.num,
                                                                     difference.den)
                                     ELSE "none"]
    /\ UNCHANGED <<actionHistory, quietLeft, loopCalls, lastLoop, busVars, layerLocks,
                   predFrame>>

NextPredict ==
    \/ PredictionErrorCheck
    \/ Tick

SpecPredict == InitCC /\ [][NextPredict]_vars

-----------------------------------------------------------------------------
(* ReflectionTriggerEngine.checkLoopDetection on concrete actions             *)

loopDetectionWindow == 5

\* loopDetectionThreshold 0.8, in tenths
loopDetectionThreshold == 8

MaxLoopCalls == 12

\* the instant one cooldown after the start, as far as the clock is advanced
LoopClockEnd == cooldownMs

\* JSON.stringify(action.params): undefined for a missing params
SerializedParams(action) ==
    IF action.params.t = "object" THEN Str(JsonStringify(action.params)) ELSE Undefined

\* similarity counted on the type alone
calculateActionSimilarity_TypeOnly(actions) ==
    IF Len(actions) < 2 THEN [num |-> 0, den |-> 1]
    ELSE [num |-> Cardinality({i \in 2..Len(actions) :
                                   actions[i - 1].type = actions[i].type}),
          den |-> Len(actions) - 1]

\* calculateActionSimilarity(actions) as the quotient num / den
calculateActionSimilarity(actions) ==
    IF Len(actions) < 2 THEN [num |-> 0, den |-> 1]
    ELSE [num |-> Cardinality({i \in 2..Len(actions) :
                                   /\ actions[i - 1].type = actions[i].type
                                   /\ SerializedParams(actions[i - 1])
                                          = SerializedParams(actions[i])}),
          den |-> Len(actions) - 1]

\* similarity > this.config.loopDetectionThreshold
ExceedsLoopThreshold(similarity) ==
    10 * similarity.num > loopDetectionThreshold * similarity.den

\* history.slice(-loopDetectionWindow)
RecentActions(history) ==
    IF Len(history) <= loopDetectionWindow THEN history
    ELSE SubSeq(history, Len(history) - loopDetectionWindow + 1, Len(history))

\* history.push(currentAction); if longer than twice the window, history.shift()
PushAction(history, action) ==
    LET pushed == Append(history, action) IN
    IF Len(pushed) > loopDetectionWindow * 2 THEN Tail(pushed) ELSE pushed

\* the actions of the sessions: those of "s1" differ in their params, those of
\* the session without id in their type
LoopActions(sid) ==
    IF sid = "s1"
    THEN {[type |-> "ls", params |-> Cmd(Str(<<"a">>))],
          [type |-> "ls", params |-> Cmd(Str(<<"b">>))]}
    ELSE {[type |-> "ls", params |-> Undefined],
          [type |-> "cat", params |-> Undefined]}

\* checkLoopDetection(sessionId, currentAction)
LoopDetectionCheck ==
    /\ loopCalls < MaxLoopCalls
    /\ \E sid \in LoopSessions :
        \E action \in LoopActions(sid) :
        LET history == actionHistory[sid]
            judged == ~(Len(history) < loopDetectionWindow)
            similarity == calculateActionSimilarity(RecentActions(history))
            key == CooldownKey("LOOP_DETECTION", sid)
            exceeds == judged /\ ExceedsLoopThreshold(similarity)
            r == IF exceeds THEN CheckCooldown(cooldownMap, key, now)
                 ELSE [ok |-> FALSE, map |-> cooldownMap] IN
        /\ cooldownMap' = r.map
        /\ actionHistory' = [actionHistory EXCEPT
                                ![sid] = IF r.ok THEN <<>> ELSE PushAction(history, action)]
        /\ quietLeft' = [quietLeft EXCEPT
                            ![sid] = IF r.ok THEN loopDetectionWindow
                                     ELSE IF @ > 0 THEN @ - 1 ELSE 0]
        /\ lastLoop' = [op |-> "check", sessionId |-> sid, history |-> history,
                        judged |-> judged, cooled |-> ~(now < cooldownMap[key]),
                        returned |-> r.ok,
                        level |-> IF r.ok THEN "STRATEGIC" ELSE "none",
                        quietBefore |-> quietLeft[sid]]
    /\ loopCalls' = loopCalls + 1
    /\ UNCHANGED <<lastPredict, busVars, layerLocks, predFrame>>

\* Date.now() moves on by one cooldown
LoopClockAdvance ==
    /\ now + cooldownMs <= LoopClockEnd
    /\ now' = now + cooldownMs
    /\ UNCHANGED <<cooldownMap, firedAt, lastCheck, checks, trFrame>>

NextLoop ==
    \/ LoopDetectionCheck
    \/ LoopClockAdvance

SpecLoop == InitCC /\ [][NextLoop]_vars

-----------------------------------------------------------------------------
(* Aspirational layer: handleNorthbound *)

K_critical == <<"c","r","i","t","i","c","a","l">>

Bool(b) == [t |-> "boolean", v |-> b]

\* the truthiness of a value
Truthy(x) ==
    CASE x.t = "boolean" -> x.v
      [] x.t = "number" -> x.v # 0
      [] x.t = "string" -> x.v # <<>>
      [] x.t \in {"undefined", "null"} -> FALSE
      [] OTHER -> TRUE

\* packet.data?.critical
DataCritical(p) ==
    IF p.data.t = "object" THEN Field(p.data, K_critical) ELSE Undefined

\* the summaries of the telemetry: a text, none, blanks
ALSummaries == {Str(<<"o","k">>), Str(<<>>), Str(<<" "," ">>)}

\* the telemetry published to Aspirational: the CRITICAL_FAILURE Task
\* Prosecution builds for an ASPIRATIONAL trigger, an EPIPHANY, and a FAILURE
\* with data.critical true, false or absent
ALTelemetry(id) ==
    {TPTelemetry(id, [traceId |-> TraceId], TriggerTarget("ASPIRATIONAL"),
                 "CRITICAL_FAILURE", C_REFLECTION)}
    \cup [id : {Uuid(id)}, timestamp : {Num(1)}, traceId : {TraceId},
          sourceLayer : {"GLOBAL_STRATEGY"}, targetLayer : {"ASPIRATIONAL"},
          type : {"EPIPHANY"}, summary : ALSummaries, data : {Undefined}]
    \cup [id : {Uuid(id)}, timestamp : {Num(1)}, traceId : {TraceId},
          sourceLayer : {"GLOBAL_STRATEGY"}, targetLayer : {"ASPIRATIONAL"},
          type : {"FAILURE"}, summary : ALSummaries,
          data : {Undefined, Obj([k \in {K_critical} |-> Bool(TRUE)]),
                  Obj([k \in {K_critical} |-> Bool(FALSE)]),
                  Obj([k \in {K_error} |-> Str(<<"x">>)])}]

\* the entries handleNorthbound adds for a packet whose summary is not empty
KnowledgeFor(p) ==
    (IF p.type = "EPIPHANY"
     THEN <<[id |-> <<"epiphany", p.id.v>>, type |-> "epiphany"]>> ELSE <<>>)
    \o (IF p.type = "FAILURE" /\ Truthy(DataCritical(p))
        THEN <<[id |-> <<"critical_failure", p.id.v>>, type |-> "critical_failure"]>>
        ELSE <<>>)

\* publishNorthbound of a telemetry packet for Aspirational and the
\* handleNorthbound it invokes: an empty summary returns, logTelemetry (a
\* failure is not caught), then addKnowledge, which returns at once while the
\* knowledge collection is not initialised
ALHandleNorthbound ==
    /\ nextUuid <= MaxUuids
    /\ \E p \in ALTelemetry(nextUuid), logOk \in BOOLEAN, ready \in BOOLEAN :
        /\ publishNorthbound(p, TRUE)
        /\ LET delivered == "ASPIRATIONAL" \in lastPublish'.invoked
               handled == delivered /\ ~(p.summary.v = <<>> \/ IsBlank(p.summary.v))
               added == IF handled /\ logOk /\ ready THEN KnowledgeFor(p) ELSE <<>> IN
           /\ knowledge' = knowledge \o added
           /\ lastNorth' = [op |-> "handled", packet |-> p, delivered |-> delivered,
                            logged |-> handled /\ logOk, ready |-> ready,
                            stored |-> Len(added)]
    /\ nextUuid' = nextUuid + 1
    /\ UNCHANGED <<layerLocks, knowFrame>>

NextALNorth == ALHandleNorthbound

SpecALNorth == InitCC /\ [][NextALNorth]_vars

-----------------------------------------------------------------------------
(* CognitiveScheduler: start, stop and tick.  The tree holds two bodies of    *)
(* tick(): the one of core/scheduler.ts and the heartbeat-only one; the       *)
(* scheduler that is constructed runs one of them.  The layer the heartbeat is *)
(* addressed to handles it with its own handleSouthbound.                     *)

TickVersions == {"scheduler.ts", "heartbeatOnly"}

C_HEARTBEAT_ONLY == <<"H","E","A","R","T","B","E","A","T">>

K_cycleType == <<"c","y","c","l","e","T","y","p","e">>

\* the packet tick() publishes
Heartbeat(version, id) ==
    IF version = "scheduler.ts"
    THEN [id |-> Uuid(id), timestamp |-> Num(1), traceId |-> TraceId,
          sourceLayer |-> "ASPIRATIONAL", targetLayer |-> "GLOBAL_STRATEGY",
          type |-> "CONTROL", content |-> Str(C_HEARTBEAT), parameters |-> Undefined]
    ELSE [id |-> Uuid(id), timestamp |-> Num(1), traceId |-> TraceId,
          sourceLayer |-> "ASPIRATIONAL", targetLayer |-> "COGNITIVE_CONTROL",
          type |-> "CONTROL", content |-> Str(C_HEARTBEAT_ONLY),
          parameters |-> Obj([k \in {K_cycleType} |-> Str(C_HEARTBEAT_ONLY)])]

IsHeartbeat(p) ==
    /\ p.type = "CONTROL"
    /\ p.sourceLayer = "ASPIRATIONAL"
    /\ p.content.v \in {C_HEARTBEAT, C_HEARTBEAT_ONLY}

\* setInterval calls and ticks followed
MaxTimers == 2
MaxSchedUuids == 3

\* new CognitiveScheduler(bus, intervalMs)
SchedConstruct ==
    /\ tickVersion = "none"
    /\ tickVersion' \in TickVersions
    /\ UNCHANGED <<intervalId, intervals, timerCount, lastSched, busVars, layerLocks,
                   schedFrame>>

\* start(): if (this.intervalId) return; setInterval
SchedStart ==
    /\ tickVersion # "none"
    /\ timerCount < MaxTimers
    /\ IF intervalId # 0
       THEN UNCHANGED <<intervalId, intervals, timerCount>>
       ELSE /\ timerCount' = timerCount + 1
            /\ intervalId' = timerCount + 1
            /\ intervals' = intervals \cup {timerCount + 1}
    /\ lastSched' = [op |-> "start", running |-> intervalId # 0, heartbeats |-> <<>>]
    /\ UNCHANGED <<tickVersion, busVars, layerLocks, schedFrame>>

\* stop(): clearInterval(this.intervalId); this.intervalId = null
SchedStop ==
    /\ tickVersion # "none"
    /\ IF intervalId # 0
       THEN /\ intervals' = intervals \ {intervalId}
            /\ intervalId' = 0
       ELSE UNCHANGED <<intervalId, intervals>>
    /\ lastSched' = [op |-> "stop", running |-> intervalId # 0, heartbeats |-> <<>>]
    /\ UNCHANGED <<tickVersion, timerCount, busVars, layerLocks, schedFrame>>

\* a timer fires: tick() publishes its packet, and the handleSouthbound of the
\* layer it is delivered to starts by trying the layer lock
SchedTick ==
    /\ nextUuid <= MaxSchedUuids
    /\ Running(gsJobs) # GsSlots
    /\ \E timer \in intervals, logOk \in BOOLEAN :
        \E p \in {Heartbeat(tickVersion, nextUuid)} :
        /\ publishSouthbound(p, logOk)
        /\ lastSched' = [op |-> "tick", running |-> intervalId # 0,
                         heartbeats |-> <<lastPublish'>>]
        /\ LET gotGS == "GLOBAL_STRATEGY" \in lastPublish'.invoked
                            /\ ~LockHeld(layerLocks, gsLockUntil, "GLOBAL_STRATEGY", now)
               gotCC == "COGNITIVE_CONTROL" \in lastPublish'.invoked
                            /\ AcquireLayerLock(layerLocks, "COGNITIVE_CONTROL")
               slot == CHOOSE s \in GsSlots \ Running(gsJobs) :
                           \A o \in GsSlots \ Running(gsJobs) : s <= o IN
           /\ layerLocks' = IF gotGS THEN layerLocks \cup {"GLOBAL_STRATEGY"}
                            ELSE IF gotCC THEN layerLocks \cup {"COGNITIVE_CONTROL"}
                            ELSE layerLocks
           /\ gsLockUntil' = IF gotGS THEN now + LockTtlMs
                             ELSE IF p.targetLayer = "GLOBAL_STRATEGY"
                                  THEN LockUntilAfterRefusal(gsLockUntil, now)
                                  ELSE gsLockUntil
           /\ gsJobs' = IF gotGS THEN [gsJobs EXCEPT ![slot] = [pc |-> "body", packet |-> p]]
                        ELSE gsJobs
           /\ lastGS' = IF p.targetLayer = "GLOBAL_STRATEGY"
                        THEN GSStep(IF gotGS THEN "acquired" ELSE "dropped", p)
                        ELSE lastGS
           /\ ccSouth' = IF gotCC THEN [pc |-> "body", packet |-> p] ELSE ccSouth
           /\ lastCC' = IF p.targetLayer = "COGNITIVE_CONTROL"
                        THEN [op |-> "deliver", ptype |-> p.type, source |-> p.sourceLayer,
                              processed |-> gotCC, preState |-> focusState,
                              preCount |-> failureCount, blank |-> FALSE]
                        ELSE lastCC
    /\ nextUuid' = nextUuid + 1
    /\ UNCHANGED <<tickVersion, intervalId, intervals, timerCount, focusState,
                   failureCount, failRun, runSignals, efVars, trVars, alVars, tpVars,
                   orderVars, chainVars, amVars, smVars, focusVars, predVars, knowVars>>

NextSched ==
    \/ SchedConstruct
    \/ SchedStart
    \/ SchedStop
    \/ SchedTick
    \/ CCSouthBody
    \/ CCSouthRelease
    \/ GSBody
    \/ GSStrategy
    \/ GSSouthRelease

SpecSched == InitCC /\ [][NextSched]_vars

-----------------------------------------------------------------------------
(* Executive Function dispatching to Cognitive Control while the scheduler    *)
(* ticks                                                                      *)

\* executeNextTasks, loop body, second half, with its subscriber: the
\* INSTRUCTION is published and the handleSouthbound of Cognitive Control it is
\* delivered to starts by trying the layer lock; the packet is dropped when the
\* lock is held
EFDispatchToCC ==
    /\ nextUuid <= MaxUuids
    /\ \E j \in EfSlots :
        /\ efJobs[j].pc = "emit"
        /\ LET job == efJobs[j]
               task == job.plan[Head(job.ready)]
               p == Instruction(nextUuid, activePlan.id, task) IN
           /\ publishSouthbound(p, TRUE)
           /\ lastEF' = [op |-> "instruction", taskId |-> task.id,
                         depsCompleted |-> DependenciesCompleted(activePlan.tasks, task),
                         afterTerminal |-> everTerminal,
                         dispatched |-> lastEF.dispatched \cup {task.id},
                         again |-> task.id \in lastEF.dispatched,
                         handled |-> lastEF.handled]
           /\ efJobs' = [efJobs EXCEPT ![j] =
                            IF Tail(job.ready) = <<>> THEN Return(j)
                            ELSE [job EXCEPT !.pc = "dispatch", !.ready = Tail(job.ready)]]
           /\ LET got == "COGNITIVE_CONTROL" \in lastPublish'.invoked
                             /\ AcquireLayerLock(layerLocks, "COGNITIVE_CONTROL") IN
              /\ layerLocks' = IF got THEN layerLocks \cup {"COGNITIVE_CONTROL"}
                               ELSE layerLocks
              /\ ccSouth' = IF got THEN [pc |-> "body", packet |-> p] ELSE ccSouth
              /\ lastCC' = [op |-> "deliver", ptype |-> p.type, source |-> p.sourceLayer,
                            processed |-> got, preState |-> focusState,
                            preCount |-> failureCount, blank |-> FALSE]
    /\ nextUuid' = nextUuid + 1
    /\ failRun' = 0
    /\ runSignals' = 0
    /\ UNCHANGED <<focusState, failureCount, activePlan, everTerminal, extVars>>

NextDispatch ==
    \/ EFDeliverSouthbound
    \/ EFSouthBody
    \/ EFSouthRelease
    \/ EFUpdateTask
    \/ EFExecuteNextTasks
    \/ EFMarkExecuting
    \/ EFDispatchToCC
    \/ CCSouthBody
    \/ CCSouthRelease
    \/ SchedConstruct
    \/ SchedStart
    \/ SchedTick

SpecDispatch == InitCC /\ [][NextDispatch]_vars

-----------------------------------------------------------------------------
(* Claims about the bus *)

Published(dir) == lastPublish.dir = dir
Rejected(err) == lastPublish.outcome = err /\ lastPublish.invoked = {}

C1_MalformedRequiredField(p, dir) ==
    \/ p.id.t # "uuid"
    \/ p.timestamp.t # "number"
    \/ p.traceId.t # "string"
    \/ p.sourceLayer \notin AceLayerID
    \/ p.targetLayer \notin AceLayerID
    \/ dir = "S" /\ (p.type \notin SouthboundType \/ p.content.t # "string")
    \/ dir = "N" /\ (p.type \notin NorthboundType \/ p.summary.t # "string")

C2_DenyList ==
    { <<"r","m"," ","-","r","f">>, <<"m","k","f","s">>,
      <<"d","d"," ","i","f","=","/","d","e","v","/","z","e","r","o">>,
      <<":","(",")","{",":","|",":","&","}",";",":">>,
      <<"c","h","m","o","d"," ","7","7","7">>, <<"w","g","e","t">>, <<"c","u","r","l">> }

C2_DenyListed(p) == p.content.t = "string" /\ \E f \in C2_DenyList : Includes(p.content.v, f)

\* C2: a southbound packet whose content contains a deny-listed fragment (rm -rf,
\* mkfs, dd if=/dev/zero, the fork bomb, chmod 777, wget, curl) is never delivered:
\* the publish fails and no subscriber is invoked; the failure is a SecurityError
\* for every packet that passes the schema (a malformed one fails validation
\* before the overlay sees it).
C2_DenyListedRejected ==
    Published("S") /\ C2_DenyListed(lastPublish.packet)
        => /\ lastPublish.outcome \in {"SecurityError", "ValidationError"}
           /\ lastPublish.invoked = {}
           /\ SouthboundSchema(lastPublish.packet) => Rejected("SecurityError")

C2_Witness ==
    /\ Published("S")
    /\ lastPublish.packet.content = Str(Embed(<<"c","u","r","l">>))
    /\ lastPublish.packet.id = Uuid(2)
    /\ lastPublish.why = "prohibited"
    /\ Rejected("SecurityError")

\* C3 as claimed: a well-formed southbound packet whose id was accepted before is
\* rejected with SecurityError and not delivered, however many packets were
\* published in between.
C3_DuplicateAlwaysRejected ==
    Published("S") /\ SouthboundSchema(lastPublish.packet) /\ lastPublish.gap >= 0
        => Rejected("SecurityError")

\* the overlay keeps MAX_TRACKED_IDS ids and drops the oldest tenth on overflow
C3_MaxBetween == 1000 - 100

\* C3, amended: a well-formed southbound packet whose id was accepted before is
\* rejected with SecurityError and not delivered, provided at most 900 other
\* southbound packets were accepted since that id was accepted.
C3_RecentDuplicateRejected ==
    Published("S") /\ SouthboundSchema(lastPublish.packet)
        /\ lastPublish.gap >= 0 /\ lastPublish.gap <= C3_MaxBetween
        => Rejected("SecurityError")

C3_Witness ==
    /\ Published("S")
    /\ lastPublish.gap = C3_MaxBetween
    /\ lastPublish.packet.content = Str(CleanContent)
    /\ lastPublish.why = "duplicate"
    /\ Rejected("SecurityError")

\* the size of the tracked-id set after n accepted southbound publishes, when
\* every overflow removes 100 ids: n up to 1000, then 901 up to 1000 again
C31_SizeAfter(n) == IF n <= 1000 THEN n ELSE 901 + ((n - 1001) % 100)

\* C31: after every southbound publish the tracked-id set holds at most 1000
\* ids; an insertion that makes it exceed 1000 removes exactly the 100
\* earliest-inserted ids and no others (the set is always the latest accepted
\* ids, as many as its size), so each of the most recently accepted 900 ids is
\* still rejected as a duplicate.
C31_BoundedOldestEvicted ==
    /\ Len(seenPacketIds) <= 1000
    /\ Len(seenPacketIds) = C31_SizeAfter(acceptCount)
    /\ \A i \in ProbeIds :
          acceptedAt[i] > 0
              => (SeenHas(seenPacketIds, i)
                    <=> acceptCount - acceptedAt[i] < Len(seenPacketIds))
    /\ (Published("S") /\ SouthboundSchema(lastPublish.packet)
          /\ lastPublish.gap >= 0 /\ lastPublish.gap < 900)
         => Rejected("SecurityError")

\* the insertion of the 1001st id has just removed the 100 earliest: the 100th
\* id is gone, the 101st is kept
C31_Witness ==
    /\ acceptCount = 1001
    /\ Len(seenPacketIds) = 901
    /\ ~SeenHas(seenPacketIds, 100)
    /\ SeenHas(seenPacketIds, 101)
    /\ lastPublish.outcome = "delivered"

C4_SensitiveWords == { <<"a","p","i","k","e","y">>, <<"p","a","s","s","w","o","r","d">>,
                       <<"t","o","k","e","n">>, <<"s","e","c","r","e","t">> }

C4_Matches(key) == \E w \in C4_SensitiveWords : Includes(ToLowerCase(key), w)

\* out is orig with the value of every matching key replaced by the marker, and
\* every other key, at every depth outside a replaced value, as it was
RECURSIVE C4_RedactionOf(_, _)
C4_RedactionOf(orig, out) ==
    /\ DOMAIN out = DOMAIN orig
    /\ \A key \in DOMAIN orig :
          IF C4_Matches(key) THEN out[key] = Str(<<"[","R","E","D","A","C","T","E","D","]">>)
          ELSE IF orig[key].t = "object"
               THEN out[key].t = "object" /\ C4_RedactionOf(orig[key].v, out[key].v)
               ELSE out[key] = orig[key]

\* C4: in the northbound packet handed to the audit log and to the subscribers,
\* every key of data that contains apikey, password, token or secret in any letter
\* case, at any nesting depth, has the value '[REDACTED]', and every other key
\* keeps its original value.
C4_SensitiveRedacted ==
    Published("N") /\ lastPublish.outcome = "delivered"
        => IF lastPublish.packet.data.t = "object"
           THEN /\ lastPublish.out.data.t = "object"
                /\ C4_RedactionOf(lastPublish.packet.data.v, lastPublish.out.data.v)
           ELSE lastPublish.out.data = lastPublish.packet.data

C4_Witness ==
    /\ Published("N")
    /\ lastPublish.outcome = "delivered"
    /\ lastPublish.logged
    /\ lastPublish.invoked = {"COGNITIVE_CONTROL"}
    /\ lastPublish.packet.data =
          Obj([k \in {K_apiKey, K_publicInfo} |->
                 IF k = K_apiKey THEN PlainValue
                 ELSE Obj([j \in {K_PASSWORD} |-> PlainValue])])
    /\ lastPublish.out.data =
          Obj([k \in {K_apiKey, K_publicInfo} |->
                 IF k = K_apiKey THEN REDACTED
                 ELSE Obj([j \in {K_PASSWORD} |-> REDACTED])])

-----------------------------------------------------------------------------
(* Claims about Executive Function *)

\* C5: in every execution, interleaved handling included, an INSTRUCTION for a
\* task is published only when every task it depends on is completed in the
\* stored plan.
\* Violated: handleNorthbound takes no lock and every handler writes back its
\* whole parsed copy, so between a handler's write and its publish another
\* handler can store a plan in which the dependency is not completed.
C5_DependenciesCompleted ==
    lastEF.op = "instruction" => lastEF.depsCompleted

\* C6: once every task of the plan is completed or failed, no further INSTRUCTION
\* is published for that plan, whatever packets arrive or are still being handled.
\* Violated: a handler still in its dispatch loop works on the copy it parsed
\* before the plan became terminal and publishes the rest of its ready list.
C6_NoInstructionAfterTerminal ==
    lastEF.op = "instruction" => ~lastEF.afterTerminal

\* the status of task t in the stored plan ("none": no such task)
C32_StoredStatus(t) ==
    IF Find(activePlan.tasks, t) = 0 THEN "none"
    ELSE activePlan.tasks[Find(activePlan.tasks, t)].status

\* no handler of Executive Function is running, and every INSTRUCTION it
\* dispatched for the stored plan has been answered by a RESULT or a FAILURE that
\* was handled: nothing is left that would change the plan
C32_AllAnswered ==
    /\ activePlan # NoPlan
    /\ \A j \in EfSlots : efJobs[j].pc = "idle"
    /\ lastEF.dispatched \subseteq lastEF.handled
    /\ \A i \in 1..Len(activePlan.tasks) : activePlan.tasks[i].status # "executing"

\* C32: for every stored plan, if every dispatched INSTRUCTION is answered by a
\* RESULT or FAILURE carrying its taskId and planId, then eventually every task
\* of the plan is completed or failed, also when a dependency fails or names no
\* task of the plan.  As a property of states: once every dispatched INSTRUCTION
\* has been answered and no handler is running, the plan only changes with a
\* further answer, so every task must be completed or failed by then.
C32_AnsweredPlanTerminates ==
    C32_AllAnswered => AllTerminal(activePlan.tasks)

\* C37: each task of a plan is dispatched (an INSTRUCTION published for it) at
\* most once, under any interleaving of the handlers of the PLAN, RESULT,
\* FAILURE and TASK_COMPLETE packets of that plan.
C37_DispatchedOnce ==
    lastEF.op = "instruction" => ~lastEF.again

\* C38: when the RESULT or FAILURE packets of two different tasks of a plan have
\* both been handled, the stored plan afterwards records the outcome of both,
\* under any interleaving of the handlers' reads and writes of the plan and of a
\* concurrent ready-set scan.
C38_BothOutcomesRecorded ==
    (Cardinality(lastEF.handled) >= 2 /\ \A j \in EfSlots : efJobs[j].pc = "idle")
        => \A t \in lastEF.handled : C32_StoredStatus(t) \in {"completed", "failed"}

-----------------------------------------------------------------------------
(* Claims about the reflection trigger engine *)

C11_Cooled ==
    {"PREDICTION_ERROR", "LOOP_DETECTION", "STAGNATION", "ACCUMULATION",
     "RESOURCE_EXHAUSTION"}

-----------------------------------------------------------------------------
(* Claims about Cognitive Control *)

\* a step of handleNorthbound that got past the blank-summary check and the
\* telemetry writes, for a packet of this type sent by Task Prosecution
CCHandled(ptype) ==
    /\ lastCC.op = "northbound"
    /\ lastCC.ptype = ptype
    /\ lastCC.source = "TASK_PROSECUTION"
    /\ lastCC.processed

\* C7: a run of N >= 3 consecutive FAILUREs from Task Prosecution, with no
\* INSTRUCTION, RESULT or reset in between, leaves FocusState FRUSTRATED and has
\* published exactly one FRUSTRATION_SIGNAL for the whole run.
\* Violated: the counter is never reset after the signal (part_010:196 only says
\* so in a comment), so every further FAILURE of the run publishes another one.
C7_OneSignalPerRun ==
    (CCHandled("FAILURE") /\ failRun >= FRUSTRATION_THRESHOLD)
        => (focusState = "FRUSTRATED" /\ runSignals = 1)

\* C8: a RESULT from Task Prosecution handled while FocusState is EXECUTING or
\* BLOCKED sets FocusState to IDLE and the failure counter to zero; handled while
\* IDLE or FRUSTRATED it changes neither.
C8_ResultResetsFocus ==
    CCHandled("RESULT") =>
        IF lastCC.preState \in {"EXECUTING", "BLOCKED"}
        THEN focusState = "IDLE" /\ failureCount = 0
        ELSE focusState = lastCC.preState /\ failureCount = lastCC.preCount

C8_Witness ==
    /\ CCHandled("RESULT")
    /\ lastCC.preState = "BLOCKED"
    /\ lastCC.preCount > 0
    /\ focusState = "IDLE"
    /\ failureCount = 0

\* the body of handleSouthbound has just handled a non-blank INSTRUCTION
C9_InstructionHandled ==
    /\ lastCC.op = "southBody"
    /\ lastCC.ptype = "INSTRUCTION"
    /\ lastCC.processed

\* C9: an INSTRUCTION addressed to Cognitive Control and handled while FocusState
\* is IDLE moves FocusState to EXECUTING and is delivered as a CONTROL packet to
\* Task Prosecution.
\* Violated: the forwarded CONTROL keeps the id of the INSTRUCTION, which the
\* overlay tracked when the INSTRUCTION itself was published, so the forward is
\* refused as a duplicate and Task Prosecution is never invoked.
C9_InstructionForwarded ==
    (C9_InstructionHandled /\ lastCC.preState = "IDLE")
        => /\ focusState = "EXECUTING"
           /\ lastPublish.dir = "S"
           /\ lastPublish.packet.type = "CONTROL"
           /\ lastPublish.outcome = "delivered"
           /\ "TASK_PROSECUTION" \in lastPublish.invoked

\* the body of handleSouthbound has just handled an INSTRUCTION or a CONTROL
\* whose content is 'BLOCKED'
C10_Leaves ==
    /\ lastCC.op = "southBody"
    /\ lastCC.processed
    /\ \/ ccSouth.packet.type = "INSTRUCTION"
       \/ ccSouth.packet.type = "CONTROL" /\ ccSouth.packet.content.v = C_BLOCKED

\* C10 as stated: once FRUSTRATED, FocusState stays FRUSTRATED under every
\* southbound and northbound packet until resetState() is called.
C10_FrustratedUntilReset ==
    (lastCC.preState = "FRUSTRATED" /\ lastCC.op # "resetState")
        => focusState = "FRUSTRATED"

\* C10, amended: once FRUSTRATED, FocusState stays FRUSTRATED under RESULT and
\* FAILURE, under CONTROL packets other than 'BLOCKED', and under blank or dropped
\* packets; it leaves FRUSTRATED exactly when resetState() is called, an
\* INSTRUCTION is handled (to EXECUTING) or a CONTROL 'BLOCKED' is handled (to BLOCKED).
C10_FrustratedKept ==
    (lastCC.preState = "FRUSTRATED" /\ lastCC.op # "resetState")
        => IF C10_Leaves
           THEN focusState = (IF ccSouth.packet.type = "INSTRUCTION"
                              THEN "EXECUTING" ELSE "BLOCKED")
           ELSE focusState = "FRUSTRATED"

C10_Witness ==
    /\ CCHandled("RESULT")
    /\ lastCC.preState = "FRUSTRATED"
    /\ focusState = "FRUSTRATED"

\* C29: when the bus rejects a publish made by a layer handler, the layer's state
\* is as it was before the attempt: Cognitive Control does not leave FocusState
\* at EXECUTING (nor the failure counter changed) for an INSTRUCTION whose
\* forward was never delivered.
C29_RejectedPublishLeavesState ==
    (C9_InstructionHandled /\ lastPublish.outcome # "delivered")
        => /\ focusState = lastCC.preState
           /\ failureCount = lastCC.preCount

-----------------------------------------------------------------------------
(* Claims about the Aspirational layer *)

\* C12: when the adjudicator rates a STRATEGY published to Aspirational as not
\* compliant, a VETO whose targetLayer is the sourceLayer of the strategy is
\* delivered on the southbound bus, and the STRATEGY is never delivered to
\* Agent Model.
C12_VetoDelivered ==
    (lastAL.op = "veto")
        => /\ lastPublish.outcome = "delivered"
           /\ lastPublish.packet.type = "VETO"
           /\ lastPublish.packet.targetLayer = lastAL.packet.sourceLayer
           /\ lastPublish.invoked = {lastAL.packet.sourceLayer}

\* the half of C12 the code keeps: nothing Aspirational publishes for a STRATEGY
\* reaches Agent Model
C12_NeverToAgentModel ==
    (lastAL.op \in {"veto", "forward"} /\ lastAL.packet.type = "STRATEGY")
        => "AGENT_MODEL" \notin lastPublish.invoked

\* C20: every non-STRATEGY directive with non-empty content published to
\* Aspirational while its lock is free is eventually delivered, with sourceLayer
\* Aspirational, to the southbound subscribers of Global Strategy. Stated at the
\* end of the handler invocation, after which nothing more is done for the packet.
C20_ForwardedToGlobalStrategy ==
    /\ (lastAL.op = "forward" /\ lastAL.packet.type # "STRATEGY" /\ lastAL.exit = "done")
         => /\ lastPublish.outcome = "delivered"
            /\ lastPublish.packet.sourceLayer = "ASPIRATIONAL"
            /\ lastPublish.invoked = {"GLOBAL_STRATEGY"}
    /\ (lastAL.op = "release" /\ lastAL.packet.type # "STRATEGY"
           /\ ~IsBlank(lastAL.packet.content.v))
         => lastAL.sent

\* C23: when a tool execution or a language-model call fails inside a layer's
\* southbound handler, the layer publishes a northbound FAILURE packet and the
\* handler invocation ends without raising an error. Stated for the adjudication
\* call of Aspirational, at the end of the invocation in which the call failed.
C23_ModelFailureReported ==
    (lastAL.op = "release" /\ lastAL.exit = "llmFailed")
        => /\ lastPublish.dir = "N"
           /\ lastPublish.outcome = "delivered"
           /\ lastPublish.packet.type = "FAILURE"
           /\ lastPublish.packet.sourceLayer = "ASPIRATIONAL"

-----------------------------------------------------------------------------
(* Claims about Task Prosecution *)

\* the call the claim describes: the tool is not registered or is one of eval,
\* exec, system, or the args fail the tool's schema, or their serialization
\* contains one of the suspicious patterns
C13_Refusable(p) ==
    LET toolName == ToolNameOf(p)
        toolArgs == ToolArgsOf(p) IN
    /\ p.type \in {"CONTROL", "INSTRUCTION"}
    /\ ~IsBlank(p.content.v)
    /\ \/ toolName \notin RegisteredTools
       \/ toolName \in {T_eval, Str(<<"e","x","e","c">>), Str(<<"s","y","s","t","e","m">>)}
       \/ ~ToolSchema(toolArgs)
       \/ \E pattern \in SUSPICIOUS_PATTERNS : Includes(JsonStringify(toolArgs), pattern)

C22_RoutedByLevel ==
    /\ lastTrigger.level = "LOCAL" => lastTrigger.packets = 0 /\ lastTrigger.to = {}
    /\ lastTrigger.level = "STRATEGIC"
         => lastTrigger.packets = 1 /\ lastTrigger.to = {"GLOBAL_STRATEGY"}
    /\ lastTrigger.level = "ASPIRATIONAL"
         => lastTrigger.packets = 1 /\ lastTrigger.to = {"ASPIRATIONAL"}
    /\ (lastTP.pc = "trigger" /\ lastTrigger.packets = 1)
         => /\ lastPublish.dir = "N"
            /\ lastPublish.packet.sourceLayer = "TASK_PROSECUTION"
            /\ lastPublish.packet.targetLayer \in lastTrigger.to
    /\ (lastTP.pc \in {"report", "released"}) => lastTP.triggers = <<>>

\* a prediction error with a difference of 0.8 or more was escalated to
\* Aspirational after the tool had run
C22_Witness ==
    /\ lastTrigger.type = "PREDICTION_ERROR"
    /\ lastTrigger.level = "ASPIRATIONAL"
    /\ lastTrigger.to = {"ASPIRATIONAL"}
    /\ lastTP.pc = "released"
    /\ lastTP.executed

\* the part of C23 the code keeps: a tool whose execute throws is reported by
\* one FAILURE to Cognitive Control and the handler returns
C23_ToolFailureReported ==
    (lastTP.pc = "released" /\ lastTP.exit = "failed")
        => /\ lastTP.failures = 1
           /\ FailureToCC(lastPublish)

-----------------------------------------------------------------------------
(* Claims about the layer locks *)

\* C14: every southbound handler invocation that acquired its layer's lock has
\* released it when the invocation ends, on every exit path: normal completion,
\* empty content, return after a veto or a rejection, and an exception thrown by
\* a language-model call or a bus publish.
C14_LockReleased ==
    /\ ("ASPIRATIONAL" \in layerLocks) <=> (alSouth.pc # "idle")
    /\ ("TASK_PROSECUTION" \in layerLocks) <=> (tpSouth.pc # "idle")
    /\ alSouth.pc \in {"idle", "body", "veto", "process", "release"}
    /\ tpSouth.pc \in {"idle", "body", "execute", "trigger", "report", "release"}

\* an invocation of Aspirational ended by an exception and one of Task
\* Prosecution ended after a rejection, with both locks free again
C14_Witness ==
    /\ lastAL.op = "release"
    /\ lastAL.exit = "threw"
    /\ lastTP.pc = "released"
    /\ lastTP.exit = "rejected"
    /\ layerLocks = {}

\* C15: a southbound packet delivered to a layer whose lock is held is dropped:
\* it changes no state of the layer, causes no publish, is not queued, and it
\* neither releases nor alters the lock of the handler in progress.
C15_DroppedWithoutEffect ==
    (lastGS.op = "dropped")
        => /\ LockHeld(lastGS.preLocks, lastGS.preUntil, "GLOBAL_STRATEGY", lastGS.at)
           /\ gsJobs = lastGS.preJobs
           /\ layerLocks = lastGS.preLocks
           /\ gsLockUntil = lastGS.preUntil
           /\ lastPublish.packet = lastGS.packet
           /\ lastPublish.invoked = {"GLOBAL_STRATEGY"}

\* a directive with content was dropped while another invocation was waiting for
\* the language model
C15_Witness ==
    /\ lastGS.op = "dropped"
    /\ ~IsBlank(lastGS.packet.content.v)
    /\ \E s \in GsSlots : gsJobs[s].pc = "llm"

\* C16: for each layer, at no time are two southbound handler invocations both
\* between a successful lock acquisition and the matching release, whatever the
\* interleaving of deliveries and however long the awaited calls take, calls
\* that outlast the 60 s expiry of the lock included.
C16_OneHandlerAtATime ==
    Cardinality(Running(gsJobs)) <= 1

-----------------------------------------------------------------------------
(* Claims about overlapping publishes and the middleware chain *)

\* C17: for any two packets published in the same direction to the same target
\* layer, the subscribers of that layer are invoked for them in the order of the
\* publish calls, also when the two publishes overlap in time.
C17_DeliveryInPublishOrder ==
    \A i, j \in 1..Len(emitted) :
        (i < j /\ emitted[i].dir = emitted[j].dir /\ emitted[i].target = emitted[j].target)
            => emitted[i].n < emitted[j].n

\* the latest publish went through the chain and reached the log or a subscriber
C18_Delivered ==
    lastChain.dir # "none" /\ (lastPublish.logged \/ lastPublish.invoked # {})

\* the middlewares ran one after another in registration order, overlay first
C18_InOrder ==
    \A i \in 1..Len(lastChain.ran) : lastChain.ran[i] = i - 1

\* a middleware aborted: nothing logged, nothing delivered, the error is the
\* outcome of the publish
C18_AbortStops ==
    (lastChain.dir # "none" /\ \E i \in 1..Len(lastChain.ran) :
        /\ lastChain.ran[i] \in 1..Len(lastChain.registered)
        /\ lastChain.registered[lastChain.ran[i]] = "throw")
        => /\ ~lastPublish.logged
           /\ lastPublish.invoked = {}
           /\ lastPublish.outcome = "Error"

\* C18: in each publish the middlewares of that direction run one after another
\* in registration order with the Security Overlay first; the packet is logged
\* and delivered only after every middleware of the chain has run to completion;
\* if a middleware aborts with an error the packet is neither logged nor
\* delivered and the error reaches the publisher.
C18_AfterWholeChain ==
    /\ C18_InOrder
    /\ C18_Delivered => Len(lastChain.ran) = 1 + Len(lastChain.registered)
    /\ C18_AbortStops

\* C18 as the code has it: the same, except that a middleware that returns
\* without calling its continuation ends the chain early, and the packet is
\* then logged and delivered although the later middlewares never ran.
C18_AfterChainAsRun ==
    /\ C18_InOrder
    /\ C18_Delivered
         => \/ Len(lastChain.ran) = 1 + Len(lastChain.registered)
            \/ /\ lastChain.ran[Len(lastChain.ran)] \in 1..Len(lastChain.registered)
               /\ lastChain.registered[lastChain.ran[Len(lastChain.ran)]] = "return"
    /\ C18_Delivered
         => \A i \in 1..Len(lastChain.ran) :
               lastChain.ran[i] \in 1..Len(lastChain.registered)
                   => lastChain.registered[lastChain.ran[i]] # "throw"
    /\ C18_AbortStops

\* a publish whose second registered middleware aborted, after the overlay and
\* the first one had run and awaited their continuations
C18_Witness ==
    /\ lastChain.dir = "S"
    /\ lastChain.registered = <<"await", "throw">>
    /\ lastChain.ran = <<0, 1, 2>>
    /\ lastPublish.outcome = "Error"

\* the part of C30 the code keeps: a southbound publish refused by the schema,
\* by the deny-list or as a duplicate leaves the duplicate-id set as it was
C30_RefusedLeavesSeen ==
    (lastChain.dir = "S" /\ lastPublish.why \in {"schema", "prohibited", "duplicate"})
        => seenPacketIds = lastChain.seenBefore

\* C30: a southbound publish that fails (validation error, deny-list match, or
\* an abort by a later middleware) leaves the bus's duplicate-id set unchanged,
\* so that a later publish of the same id is judged as if the failed publish
\* had never happened.
C30_FailedPublishLeavesSeen ==
    (lastChain.dir = "S" /\ lastPublish.outcome # "delivered")
        => seenPacketIds = lastChain.seenBefore

-----------------------------------------------------------------------------
(* Claims about failing log writes *)

\* the half of C19 about the bus: a publish whose audit-log write fails still
\* delivers the packet and succeeds
C19_BusLogFailureDelivered ==
    (lastPublish.outcome = "delivered" /\ busHasLogs /\ ~lastPublish.logged)
        => lastPublish.invoked = {lastPublish.packet.targetLayer}

\* C19: a failing audit or telemetry log write is never fatal: a bus publish
\* whose log write fails still delivers, and a northbound handler whose
\* telemetry write fails still performs its state transition (Cognitive Control
\* still counts the FAILURE, still returns to IDLE on a RESULT).
C19_WriteFailureNotFatal ==
    /\ C19_BusLogFailureDelivered
    /\ (lastCC.op = "northbound" /\ lastCC.source = "TASK_PROSECUTION" /\ ~lastCC.blank)
         => /\ lastCC.ptype = "FAILURE" => failureCount = lastCC.preCount + 1
            /\ (lastCC.ptype = "RESULT" /\ lastCC.preState \in {"EXECUTING", "BLOCKED"})
                 => focusState = "IDLE" /\ failureCount = 0

-----------------------------------------------------------------------------
(* Claims about Agent Model *)

\* a STRATEGY with content that Agent Model handled to the end of its handler
C21_Handled ==
    /\ lastAM.op = "release"
    /\ lastAM.packet.type = "STRATEGY"
    /\ lastAM.exit \in {"done", "threw"}

C21_Refused == ExceedsThreshold(lastAM.validation) \/ ~lastAM.validation.valid

\* C21: a STRATEGY whose normalized risk level exceeds the threshold, or whose
\* validation is not valid (a failed validation call included), results in no
\* PLAN to Executive Function and in exactly one CAPABILITY_ERROR to Global
\* Strategy; every other STRATEGY Agent Model handles results in exactly one PLAN
\* delivered to Executive Function.
C21_PlanOrCapabilityError ==
    C21_Handled =>
        IF C21_Refused
        THEN lastAM.plans = 0 /\ lastAM.errors = 1
        ELSE lastAM.plans = 1 /\ lastAM.errors = 0

\* the half of C21 the code keeps: a refused STRATEGY gives one CAPABILITY_ERROR
\* and no PLAN
C21_RefusedReported ==
    (C21_Handled /\ C21_Refused) => (lastAM.plans = 0 /\ lastAM.errors = 1)

-----------------------------------------------------------------------------
(* Claims about sessions *)

\* C24: in every state after archiveSession(s) has completed, s is absent from
\* the results of getActiveSessions and getAllUnarchivedSessions, and getSession(s)
\* still returns its record with status archived, whatever session operations or
\* packets carrying that sessionId follow.
C24_ArchivedStaysArchived ==
    \A s \in archivedDone :
        /\ \A cutoffTime \in CutoffTimes :
              s \notin getActiveSessions(sessionRows, cutoffTime, now)
        /\ s \notin SqlAllUnarchivedSessions(sessionRows)
        /\ GetSession(sessionCache, sessionRows, s).exists
        /\ GetSession(sessionCache, sessionRows, s).status = "archived"

\* what holds of an archived session: right after archiveSession it is
\* excluded from both queries and its record is kept
C24_ArchivedExcluded ==
    (lastSM.op = "archiveSession" /\ lastSM.sessionId \in archivedDone)
        => /\ \A cutoffTime \in CutoffTimes :
                 lastSM.sessionId \notin getActiveSessions(sessionRows, cutoffTime, now)
           /\ lastSM.sessionId \notin SqlAllUnarchivedSessions(sessionRows)
           /\ GetSession(sessionCache, sessionRows, lastSM.sessionId).status = "archived"

\* C25: every change to a stored SessionState record is made by a Session
\* Manager operation; no layer handler changes a session record by another path.
C25_SessionManagerSoleWriter ==
    lastSM.changed => lastSM.by = "SessionManager"

-----------------------------------------------------------------------------
(* Claims about Cognitive Control and the sessions of its packets *)

\* C26: whether and when Cognitive Control enters FRUSTRATED and publishes
\* FRUSTRATION_SIGNAL for the packets of one session is unaffected by the
\* INSTRUCTION, RESULT and FAILURE packets of another session: the run with the
\* other session's packets and the run without them agree on every packet of
\* this session.
C26_NoCrossTalk ==
    (lastFocus.sessionId = ThisSession /\ lastFocus.op \in {"northbound", "southbound"})
        => /\ lastFocus.signal = lastFocus.twinSignal
           /\ (focusState = "FRUSTRATED") <=> (twinState = "FRUSTRATED")

\* C28: FRUSTRATION_SIGNAL is published only when the most recent three task
\* outcomes Cognitive Control received from Task Prosecution were all FAILUREs,
\* with no RESULT between them.
C28_SignalOnlyAfterThreeFailures ==
    lastFocus.signal => outcomeRun >= FRUSTRATION_THRESHOLD

-----------------------------------------------------------------------------
(* Claims about the Cognitive Scheduler *)

\* the part of C27 about start() and stop(): at most one timer is set at a time
\* (a second start() while running adds none), none is left after stop(), and a
\* tick happens only while the scheduler is running
C27_OneStreamWhileRunning ==
    /\ intervals = IF intervalId = 0 THEN {} ELSE {intervalId}
    /\ (lastSched.op = "start" /\ lastSched.running) => intervals = {intervalId}
    /\ lastSched.op = "stop" => intervals = {}
    /\ lastSched.op = "tick" => lastSched.running

\* the part of C27 about what a tick publishes: exactly one southbound CONTROL
\* packet under an id the bus has not seen, delivered to the subscribers of the
\* layer it is addressed to
C27_OneHeartbeatDelivered ==
    lastSched.op = "tick"
        => /\ Len(lastSched.heartbeats) = 1
           /\ \A i \in 1..Len(lastSched.heartbeats) :
                 /\ lastSched.heartbeats[i].dir = "S"
                 /\ lastSched.heartbeats[i].packet.type = "CONTROL"
                 /\ lastSched.heartbeats[i].outcome = "delivered"
                 /\ lastSched.heartbeats[i].invoked
                        = {lastSched.heartbeats[i].packet.targetLayer}

\* C27: between start() and stop() every scheduler tick publishes exactly one
\* southbound CONTROL heartbeat with a fresh id, addressed to Cognitive Control,
\* that reaches the target layer's subscribers without causing Global Strategy
\* to generate a strategy or run reflection; a second start() while running adds
\* no second tick stream, and after stop() no further heartbeat is published.
C27_HeartbeatToCognitiveControl ==
    /\ C27_OneStreamWhileRunning
    /\ C27_OneHeartbeatDelivered
    /\ lastSched.op = "tick"
         => \A i \in 1..Len(lastSched.heartbeats) :
               lastSched.heartbeats[i].packet.targetLayer = "COGNITIVE_CONTROL"
    /\ \A s \in GsSlots :
          (gsJobs[s].pc \in {"body", "llm"} /\ IsHeartbeat(gsJobs[s].packet))
              => gsJobs[s].pc # "llm"

-----------------------------------------------------------------------------
(* Claims about the reflection trigger engine on states and actions *)

\* whether two leaves hold the same value
C33_Same(e, a) == e.t = a.t /\ (e.t \in {"number", "string"} => e.v = a.v)

\* the leaves of the field-by-field comparison of e and a, over the union of
\* their keys: each with its path and whether the two states differ there
RECURSIVE C33_Leaves(_, _)
C33_Leaves(e, a) ==
    IF e.t = "object" /\ a.t = "object"
    THEN UNION {{<<(<<k>> \o l[1]), l[2]>> : l \in C33_Leaves(Field(e, k), Field(a, k))} :
                   k \in DOMAIN e.v \cup DOMAIN a.v}
    ELSE {<< <<>>, ~C33_Same(e, a) >>}

C33_Total == Cardinality(C33_Leaves(lastPredict.expected, lastPredict.actual))

C33_Mismatched ==
    Cardinality({l \in C33_Leaves(lastPredict.expected, lastPredict.actual) : l[2]})

\* C33: checkPredictionError returns a trigger only when mismatched leaves /
\* total leaves (over the union of the keys of expected and actual state)
\* exceeds the threshold 0.3, and it does return one then unless the cooldown
\* holds it back; the level returned is LOCAL for a score below 0.5, STRATEGIC
\* from 0.5 up to but excluding 0.8, and ASPIRATIONAL from 0.8 on.
C33_ScoreAndLevel ==
    lastPredict.op = "check"
        => /\ lastPredict.returned
                => (C33_Total > 0 /\ 10 * C33_Mismatched > 3 * C33_Total)
           /\ (C33_Total > 0 /\ 10 * C33_Mismatched > 3 * C33_Total /\ lastPredict.cooled)
                => lastPredict.returned
           /\ lastPredict.returned
                => lastPredict.level =
                       IF 10 * C33_Mismatched < 5 * C33_Total THEN "LOCAL"
                       ELSE IF 10 * C33_Mismatched < 8 * C33_Total THEN "STRATEGIC"
                       ELSE "ASPIRATIONAL"

\* a trigger returned for four differing fields of five: a score of exactly 0.8
C33_Witness ==
    /\ lastPredict.op = "check"
    /\ lastPredict.returned
    /\ lastPredict.fieldCount = 5
    /\ lastPredict.totalDifference = 4
    /\ lastPredict.level = "ASPIRATIONAL"

\* the consecutive pairs of the window that agree in type and params
C34_SamePairs(window) ==
    Cardinality({i \in 1..(Len(window) - 1) :
                     /\ window[i].type = window[i + 1].type
                     /\ window[i].params = window[i + 1].params})

\* the most recent loopDetectionWindow recorded actions before the last call
C34_Window ==
    LET h == lastLoop.history IN
    [i \in 1..(IF Len(h) < 5 THEN Len(h) ELSE 5) |->
        h[Len(h) - (IF Len(h) < 5 THEN Len(h) ELSE 5) + i]]

\* C34: checkLoopDetection returns a trigger, of level STRATEGIC, only when the
\* fraction of consecutive pairs with identical type and params among the most
\* recent window of recorded actions exceeds 0.8; after a trigger the
\* session's history is empty, and none of the next five calls for the
\* session returns a trigger.
C34_LoopOnlyAboveThreshold ==
    (lastLoop.op = "check" /\ lastLoop.returned)
        => /\ lastLoop.level = "STRATEGIC"
           /\ Len(C34_Window) = 5
           /\ 10 * C34_SamePairs(C34_Window) > 8 * (Len(C34_Window) - 1)
           /\ actionHistory[lastLoop.sessionId] = <<>>
           /\ lastLoop.quietBefore = 0

\* a second trigger for a session, returned by the sixth call after the first
\* one: twelve calls, all of this session, the last one judging five actions
C34_Witness ==
    /\ lastLoop.op = "check"
    /\ lastLoop.returned
    /\ loopCalls = 12
    /\ Len(lastLoop.history) = 5
    /\ actionHistory[lastLoop.sessionId] = <<>>
    /\ \A sid \in LoopSessions \ {lastLoop.sessionId} :
           actionHistory[sid] = <<>> /\ quietLeft[sid] = 0

-----------------------------------------------------------------------------
(* Claims about the knowledge of the Aspirational layer *)

\* the telemetry is an EPIPHANY or a critical failure: a FAILURE flagged
\* critical or a CRITICAL_FAILURE
C35_EpiphanyOrCritical(p) ==
    \/ p.type = "EPIPHANY"
    \/ p.type = "CRITICAL_FAILURE"
    \/ p.type = "FAILURE" /\ p.data.t = "object" /\ K_critical \in DOMAIN p.data.v
         /\ p.data.v[K_critical] = Bool(TRUE)

\* C35: every EPIPHANY and every critical failure delivered to Aspirational with
\* a non-empty summary, the CRITICAL_FAILURE of Task Prosecution included, has
\* exactly one knowledge entry stored for it (storage working: the telemetry was
\* logged and the knowledge collection is initialised).
C35_OneKnowledgeEntry ==
    (/\ lastNorth.op = "handled"
     /\ lastNorth.delivered
     /\ lastNorth.logged
     /\ lastNorth.ready
     /\ C35_EpiphanyOrCritical(lastNorth.packet)
     /\ ~IsBlank(lastNorth.packet.summary.v))
        => /\ lastNorth.stored = 1
           /\ Cardinality({i \in 1..Len(knowledge) :
                               knowledge[i].id[2] = lastNorth.packet.id.v}) = 1

-----------------------------------------------------------------------------
(* Claims about the reports of Task Prosecution *)

\* C36: for every CONTROL or INSTRUCTION with content that Task Prosecution
\* handled under its lock, exactly one RESULT or FAILURE was published
\* northbound to Cognitive Control by the time the handler has released the
\* lock.
C36_OneReportPerDirective ==
    (/\ lastTP.pc = "released"
     /\ lastTP.packet.type \in {"CONTROL", "INSTRUCTION"}
     /\ lastTP.packet.targetLayer = "TASK_PROSECUTION"
     /\ ~IsBlank(lastTP.packet.content.v))
        => \/ lastTP.failures = 1 /\ lastTP.report # "RESULT"
           \/ lastTP.failures = 0 /\ lastTP.report = "RESULT"

-----------------------------------------------------------------------------
(* Claims about the dispatch of instructions *)

\* the latest publish is an INSTRUCTION of Executive Function that the bus
\* delivered to Cognitive Control
C39_InstructionDelivered ==
    /\ lastEF.op = "instruction"
    /\ lastPublish.dir = "S"
    /\ lastPublish.packet.type = "INSTRUCTION"
    /\ lastPublish.packet.sourceLayer = "EXECUTIVE_FUNCTION"
    /\ lastPublish.outcome = "delivered"
    /\ "COGNITIVE_CONTROL" \in lastPublish.invoked

\* C39: every INSTRUCTION that Executive Function publishes for a ready task is
\* eventually forwarded by Cognitive Control to Task Prosecution, also when
\* several tasks become ready in one scan or a heartbeat is being handled. No
\* packet is queued or retried, so the handler of Cognitive Control has to take
\* up every INSTRUCTION delivered to it.
C39_InstructionTakenUp ==
    (/\ C39_InstructionDelivered
     /\ lastCC.op = "deliver"
     /\ lastCC.ptype = "INSTRUCTION")
        => lastCC.processed

\* the same for an INSTRUCTION that arrives while Cognitive Control handles a
\* heartbeat
C39_TakenUpDuringHeartbeat ==
    (/\ C39_InstructionDelivered
     /\ lastCC.op = "deliver"
     /\ lastCC.ptype = "INSTRUCTION"
     /\ IsHeartbeat(ccSouth.packet))
        => lastCC.processed

-----------------------------------------------------------------------------
(* Claims about the session cache *)

\* C40: after any sequence of createSession, updateSessionActivity,
\* addGoalToSession, removeGoalFromSession, updateSessionMetadata,
\* updateReflectionState and archiveSession, getSession(s) returns the
\* activeGoals, status and metadata of the persisted record of s.
C40_GetSessionMatchesRecord ==
    \A s \in SmSessions :
        LET got == GetSession(sessionCache, sessionRows, s) IN
        got.exists
            => /\ sessionRows[s].exists
               /\ got.activeGoals = sessionRows[s].activeGoals
               /\ got.status = sessionRows[s].status
               /\ got.metadata = sessionRows[s].metadata

====
